---- MODULE Spec2Model ----
(***************************************************************************)
(* A model of the dat SQL builders: InsertBuilder, SelectBuilder and       *)
(* SelectDocBuilder.  SQL text is a sequence of tokens: a literal chunk of *)
(* text, or a positional placeholder $n.  A builder is a record of its     *)
(* fields; a chaining call is an operator from the builder to the builder  *)
(* after the call; ToSQL is an operator from the builder to the triple     *)
(* (sql, args, err) it returns.                                            *)
(***************************************************************************)
EXTENDS Integers, Sequences, FiniteSets, TLC

VARIABLES ins, sel, doc, res, calls, hist

vars == <<ins, sel, doc, res, calls, hist>>

(***************************************************************************)
(* Bounds of the model.                                                    *)
(***************************************************************************)
\* chaining calls on the InsertBuilder, in upserts, and on the SelectBuilder
MaxInsCalls == 4
MaxUpsertCalls == 4
MaxSelCalls == 4
MaxWhereCalls == 4
\* chaining calls on the SelectDocBuilders: with inputs that resolve, with
\* inputs that fail, and in the runs over every family of builders
MaxDocCalls == 3
MaxListCalls == 4
MaxErrCalls == 2
MaxMixedCalls == 2

(***************************************************************************)
(* Tokens of SQL text.                                                     *)
(***************************************************************************)
Lit(s) == [k |-> "lit", s |-> s, n |-> 0]

Ph(n) == [k |-> "ph", s |-> "$", n |-> n]

IsPh(t) == t.k = "ph"

\* the error value nil
NoErr == ""

\* the placeholder numbers of a text, left to right
RECURSIVE Markers(_)
Markers(text) ==
  IF text = <<>> THEN <<>>
  ELSE IF IsPh(Head(text)) THEN <<Head(text).n>> \o Markers(Tail(text))
  ELSE Markers(Tail(text))

MarkerSet(text) == {text[i].n : i \in {j \in 1..Len(text) : IsPh(text[j])}}

MarkerCount(text) == Cardinality(MarkerSet(text))

(***************************************************************************)
(* Expression and whereFragment: text with relative placeholders and the   *)
(* values bound to them.                                                   *)
(***************************************************************************)
Expr(sql, args) == [sql |-> sql, args |-> args]

\* An argument of Where/Having/OrderBy/From/Join: a string with its args, or
\* a value of a type newWhereFragment does not accept.
StrIn(sql, args) == [t |-> "str", sql |-> sql, args |-> args]

BadIn == [t |-> "bad", sql |-> <<>>, args |-> <<>>]

\* A column -> value map of one entry.  The value is a scalar, nil, or a
\* slice; v names the value as it is bound, elems the elements of a slice.
Scalar(v) == [k |-> "scalar", v |-> v, elems |-> <<>>, nil |-> FALSE]

NilVal == [k |-> "nil", v |-> "", elems |-> <<>>, nil |-> TRUE]

Slice(v, elems) == [k |-> "slice", v |-> v, elems |-> elems, nil |-> FALSE]

NilSlice == [k |-> "slice", v |-> "", elems |-> <<>>, nil |-> TRUE]

EqIn(col, val) == [t |-> "eq", col |-> col, val |-> val]

ErrInvalidWhere == "Invalid argument passed to Where. Pass a string or an Eq map."

IsNull(col) == Expr(<<Lit(col), Lit(" IS NULL")>>, <<>>)

\* an empty slice bound as the array of col IN $1
EqSliceEmptyIn(col, val) ==
  IF Len(val.elems) = 1
    THEN Expr(<<Lit(col), Lit(" = "), Ph(1)>>, <<val.elems[1]>>)
    ELSE Expr(<<Lit(col), Lit(" IN "), Ph(1)>>, <<val.v>>)

\* a slice that is not nil: no element, one element, two or more
EqSlice(col, val) ==
  IF Len(val.elems) = 0 THEN Expr(<<Lit("1=0")>>, <<>>)
  ELSE IF Len(val.elems) = 1
    THEN Expr(<<Lit(col), Lit(" = "), Ph(1)>>, <<val.elems[1]>>)
  ELSE Expr(<<Lit(col), Lit(" IN "), Ph(1)>>, <<val.v>>)

\* a nil slice taken for a slice of length 0
EqFragmentNilAsEmpty(col, val) ==
  IF val.k = "nil" THEN IsNull(col)
  ELSE IF val.k = "slice" THEN EqSlice(col, val)
  ELSE Expr(<<Lit(col), Lit(" = "), Ph(1)>>, <<val.v>>)

\* the predicate of one map entry
EqFragment(col, val) ==
  IF val.k = "nil" THEN IsNull(col)
  ELSE IF val.k = "slice"
    THEN (IF val.nil THEN IsNull(col) ELSE EqSlice(col, val))
  ELSE Expr(<<Lit(col), Lit(" = "), Ph(1)>>, <<val.v>>)

newWhereFragment(in) ==
  IF in.t = "str"
    THEN [frag |-> Expr(in.sql, in.args), err |-> NoErr]
  ELSE IF in.t = "eq"
    THEN [frag |-> EqFragment(in.col, in.val), err |-> NoErr]
  ELSE [frag |-> Expr(<<>>, <<>>), err |-> ErrInvalidWhere]

(***************************************************************************)
(* The render state of one ToSQL call: the buffer, the argument list and   *)
(* the placeholder cursor.                                                 *)
(***************************************************************************)
NewRender == [buf |-> <<>>, args |-> <<>>, pos |-> 1]

WriteString(st, s) == [st EXCEPT !.buf = @ \o <<Lit(s)>>]

WriteText(st, text) == [st EXCEPT !.buf = @ \o text]

\* every relative marker $k becomes $(start+k-1)
remapPlaceholders(text, start) ==
  [i \in 1..Len(text) |->
     IF IsPh(text[i]) THEN Ph(start + text[i].n - 1) ELSE text[i]]

\* compile(fragment, outputBuffer, argsOut, cursor)
WriteRelativeArgs(st, e) ==
  [buf  |-> st.buf \o remapPlaceholders(e.sql, st.pos),
   args |-> st.args \o e.args,
   pos  |-> st.pos + MarkerCount(e.sql)]

RECURSIVE WriteFragments(_, _, _, _, _)
WriteFragments(st, frags, i, open, close) ==
  IF i > Len(frags) THEN st
  ELSE WriteFragments(
         WriteText(
           WriteRelativeArgs(
             WriteText(st, IF i = 1 THEN open[1] ELSE open[2]), frags[i]),
           close),
         frags, i + 1, open, close)

\* (f1) AND (f2) ...
writeAndFragmentsToSQL(st, frags) ==
  WriteFragments(st, frags, 1, << <<Lit("(")>>, <<Lit(" AND (")>> >>, <<Lit(")")>>)

\* f1, f2 ...
writeCommaFragmentsToSQL(st, frags) ==
  WriteFragments(st, frags, 1, << <<>>, <<Lit(", ")>> >>, <<>>)

\* f1 f2 ...
writeConcatFragmentsToSQL(st, frags) ==
  WriteFragments(st, frags, 1, << <<Lit(" ")>>, <<Lit(" ")>> >>, <<>>)

RECURSIVE WriteJoined(_, _, _, _)
WriteJoined(st, strs, i, sep) ==
  IF i > Len(strs) THEN st
  ELSE WriteJoined(
         WriteString(IF i > 1 THEN WriteString(st, sep) ELSE st, strs[i]),
         strs, i + 1, sep)

\* what ToSQL returns
Result(sql, args, err) == [sql |-> sql, args |-> args, err |-> err, panic |-> FALSE]

\* the call did not return: a run-time panic
Panic(msg) == [sql |-> <<>>, args |-> <<>>, err |-> msg, panic |-> TRUE]

NewDatSQLErr(err) == Result(<<>>, <<>>, err)

(***************************************************************************)
(* SelectBuilder.                                                          *)
(***************************************************************************)
NoScope == [set |-> FALSE, sql |-> <<>>, args |-> <<>>]

NewSelectBuilderZero ==
  [isDistinct      |-> FALSE,
   distinctColumns |-> <<>>,
   columns         |-> <<>>,
   fors            |-> <<>>,
   tableFragments  |-> <<>>,
   joinFragments   |-> <<>>,
   whereFragments  |-> <<>>,
   groupBys        |-> <<>>,
   havingFragments |-> <<>>,
   orderBys        |-> <<>>,
   limitCount      |-> 0,
   limitValid      |-> FALSE,
   offsetCount     |-> 0,
   offsetValid     |-> FALSE,
   scope           |-> NoScope,
   err             |-> NoErr]

ErrSelectColumns == "Select requires 1 or more columns"

SbColumns(b, columns) ==
  IF Len(columns) = 0 \/ columns[1] = ""
    THEN [b EXCEPT !.err = ErrSelectColumns]
    ELSE [b EXCEPT !.columns = @ \o columns]

\* what Columns returns: nil with the error recorded, the builder otherwise
SbColumnsReturn(b, columns) ==
  IF Len(columns) = 0 \/ columns[1] = "" THEN "nil" ELSE "self"

NewSelectBuilder(columns) == SbColumns(NewSelectBuilderZero, columns)

SbDistinct(b) == [b EXCEPT !.isDistinct = TRUE]

SbDistinctOn(b, columns) ==
  [b EXCEPT !.isDistinct = TRUE, !.distinctColumns = columns]

SbFrom(b, in) ==
  LET f == newWhereFragment(in) IN
  IF f.err # NoErr
    THEN [b EXCEPT !.err = f.err]
    ELSE [b EXCEPT !.tableFragments = Append(@, f.frag)]

SbImplJoin(b, in) ==
  LET f == newWhereFragment(in) IN
  IF f.err # NoErr
    THEN [b EXCEPT !.err = f.err]
    ELSE [b EXCEPT !.joinFragments = Append(@, f.frag)]

\* Join, LeftJoin, RightJoin, FullOuterJoin: the keyword is put before the text
SbJoin(b, keyword, in) ==
  SbImplJoin(b, [in EXCEPT !.sql = <<Lit(keyword)>> \o @])

SbFor(b, options) == [b EXCEPT !.fors = options]

SbScope(b, sql, args) ==
  [b EXCEPT !.scope = [set |-> TRUE, sql |-> sql, args |-> args]]

SbWhere(b, in) ==
  LET f == newWhereFragment(in) IN
  IF f.err # NoErr
    THEN [b EXCEPT !.err = f.err]
    ELSE [b EXCEPT !.whereFragments = Append(@, f.frag)]

SbGroupBy(b, group) == [b EXCEPT !.groupBys = Append(@, group)]

SbHaving(b, in) ==
  LET f == newWhereFragment(in) IN
  IF f.err # NoErr
    THEN [b EXCEPT !.err = f.err]
    ELSE [b EXCEPT !.havingFragments = Append(@, f.frag)]

SbOrderBy(b, in) ==
  LET f == newWhereFragment(in) IN
  IF f.err # NoErr
    THEN [b EXCEPT !.err = f.err]
    ELSE [b EXCEPT !.orderBys = Append(@, f.frag)]

SbLimit(b, limit) == [b EXCEPT !.limitCount = limit, !.limitValid = TRUE]

SbOffset(b, offset) == [b EXCEPT !.offsetCount = offset, !.offsetValid = TRUE]

\* page and perPage are at least 1 (the caller's obligation)
SbPaginate(b, page, perPage) ==
  SbOffset(SbLimit(b, perPage), (page - 1) * perPage)

\* splitWhere: the text before the first WHERE keyword, and the text after it
WhereAt(text) == {i \in 1..Len(text) : text[i] = Lit("WHERE")}

splitWhere(text) ==
  IF WhereAt(text) = {} THEN [sql |-> text, where |-> <<>>]
  ELSE LET i == CHOOSE j \in WhereAt(text) : \A m \in WhereAt(text) : j <= m IN
       [sql |-> SubSeq(text, 1, i - 1), where |-> SubSeq(text, i + 1, Len(text))]

\* the scope part of ToSQL: the text before WHERE goes to the buffer as it is
WriteScopeSQL(st, b) ==
  IF b.scope.set THEN WriteText(st, splitWhere(b.scope.sql).sql) ELSE st

\* the local whereFragments of ToSQL: the builder's, and the scope's WHERE part
ScopedWhereFragments(b) ==
  IF b.scope.set /\ splitWhere(b.scope.sql).where # <<>>
    THEN Append(b.whereFragments, Expr(splitWhere(b.scope.sql).where, b.scope.args))
    ELSE b.whereFragments

WriteDistinct(st, b) ==
  IF ~b.isDistinct THEN st
  ELSE IF Len(b.distinctColumns) = 0 THEN WriteString(st, "DISTINCT ")
  ELSE WriteString(
         WriteJoined(WriteString(st, "DISTINCT ON ("), b.distinctColumns, 1, ", "),
         ") ")

\* WHERE with the placeholders of its fragments counted from $1
WriteWhereOwnCursor(st, frags) ==
  IF Len(frags) > 0
    THEN writeAndFragmentsToSQL([WriteString(st, " WHERE ") EXCEPT !.pos = 1], frags)
    ELSE st

WriteWhere(st, frags) ==
  IF Len(frags) > 0
    THEN writeAndFragmentsToSQL(WriteString(st, " WHERE "), frags)
    ELSE st

WriteGroupBy(st, b) ==
  IF Len(b.groupBys) > 0
    THEN WriteJoined(WriteString(st, " GROUP BY "), b.groupBys, 1, ", ")
    ELSE st

WriteHaving(st, b) ==
  IF Len(b.havingFragments) > 0
    THEN writeAndFragmentsToSQL(WriteString(st, " HAVING "), b.havingFragments)
    ELSE st

WriteOrderBy(st, b) ==
  IF Len(b.orderBys) > 0
    THEN writeCommaFragmentsToSQL(WriteString(st, " ORDER BY "), b.orderBys)
    ELSE st

\* writeUint64: the number is written as text
WriteLimitOffset(st, b) ==
  LET l == IF b.limitValid
             THEN WriteText(WriteString(st, " LIMIT "), <<Lit(ToString(b.limitCount))>>)
             ELSE st
  IN IF b.offsetValid
       THEN WriteText(WriteString(l, " OFFSET "), <<Lit(ToString(b.offsetCount))>>)
       ELSE l

RECURSIVE WriteEach(_, _, _, _)
WriteEach(st, strs, i, before) ==
  IF i > Len(strs) THEN st
  ELSE WriteEach(WriteString(WriteString(st, before), strs[i]), strs, i + 1, before)

WriteFor(st, b) ==
  IF Len(b.fors) > 0
    THEN WriteEach(WriteString(st, " FOR"), b.fors, 1, " ")
    ELSE st

\* GROUP BY ... FOR, the tail that SelectBuilder and SelectDocBuilder share
WriteTail(st, b) ==
  WriteFor(WriteLimitOffset(WriteOrderBy(WriteHaving(WriteGroupBy(st, b), b), b), b), b)

\* FROM: the tables comma-joined, then the joins
SelectWriteFrom(st, b) ==
  IF Len(b.tableFragments) > 0
    THEN writeConcatFragmentsToSQL(
           writeCommaFragmentsToSQL(WriteString(st, " FROM "), b.tableFragments),
           b.joinFragments)
    ELSE st

ErrNoColumns == "no columns specified"

ErrJoinNoFrom == "joins may only be attached if a from target is specified"

SelectRender(b) ==
  WriteTail(
    WriteWhere(
      WriteScopeSQL(
        SelectWriteFrom(
          WriteJoined(WriteDistinct(WriteString(NewRender, "SELECT "), b),
                      b.columns, 1, ", "),
          b),
        b),
      ScopedWhereFragments(b)),
    b)

SelectToSQL(b) ==
  IF b.err # NoErr THEN NewDatSQLErr(b.err)
  ELSE IF Len(b.columns) = 0 THEN NewDatSQLErr(ErrNoColumns)
  ELSE IF Len(b.tableFragments) = 0 /\ Len(b.joinFragments) > 0
    THEN NewDatSQLErr(ErrJoinNoFrom)
  ELSE Result(SelectRender(b).buf, SelectRender(b).args, NoErr)

\* ToSQL storing the WHERE list with the scope's fragment in the builder
SelectAfterToSQLScoped(b) == [b EXCEPT !.whereFragments = ScopedWhereFragments(b)]

\* ToSQL assigns no field of the builder
SelectAfterToSQL(b) == b

(***************************************************************************)
(* SelectDocBuilder.                                                       *)
(***************************************************************************)
\* a *subInfo: an Expression with an alias, or nil once Whitelist pruned it
SubInfo(e, alias) == [nil |-> FALSE, sql |-> e.sql, args |-> e.args, alias |-> alias]

NilSub == [nil |-> TRUE, sql |-> <<>>, args |-> <<>>, alias |-> ""]

NoInnerSQL == [set |-> FALSE, sql |-> <<>>, args |-> <<>>]

NewSelectDocBuilder(columns) ==
  [sb               |-> NewSelectBuilder(columns),
   subQueriesWith   |-> <<>>,
   subQueriesMany   |-> <<>>,
   subQueriesOne    |-> <<>>,
   subQueriesVector |-> <<>>,
   subQueriesScalar |-> <<>>,
   innerSQL         |-> NoInnerSQL,
   union            |-> <<>>,
   isParent         |-> TRUE,
   err              |-> NoErr]

DocInnerSQL(b, sql, args) ==
  [b EXCEPT !.innerSQL = [set |-> TRUE, sql |-> sql, args |-> args]]

RECURSIVE WriteWith(_, _, _)
WriteWith(st, subs, i) ==
  IF i > Len(subs) THEN st
  ELSE WriteWith(
         WriteString(
           WriteRelativeArgs(
             WriteString(
               WriteString(WriteString(st, IF i = 1 THEN "WITH " ELSE ", "),
                           subs[i].alias),
               " AS ("),
             subs[i]),
           ") "),
         subs, i + 1)

\* WriteSub with the sub-query compiled from $1, whatever the cursor
WriteSubOwnNumbers(st, sub, c) ==
  WriteText(
    WriteString(
      WriteString(
        WriteString(
          [WriteRelativeArgs(
             [WriteString(WriteString(WriteString(st, c[1]), sub.alias), c[2])
                EXCEPT !.pos = 1],
             sub) EXCEPT !.pos = st.pos + MarkerCount(sub.sql)],
          c[3]),
        sub.alias),
      c[4]),
    <<Lit("\""), Lit(sub.alias), Lit("\"")>>)

\* one embedded sub-query: c[1] alias c[2] <sub-query> c[3] alias c[4] "alias"
WriteSub(st, sub, c) ==
  WriteText(
    WriteString(
      WriteString(
        WriteString(
          WriteRelativeArgs(
            WriteString(WriteString(WriteString(st, c[1]), sub.alias), c[2]),
            sub),
          c[3]),
        sub.alias),
      c[4]),
    <<Lit("\""), Lit(sub.alias), Lit("\"")>>)

RECURSIVE WriteSubs(_, _, _, _)
WriteSubs(st, subs, i, c) ==
  IF i > Len(subs) THEN st
  ELSE IF subs[i].nil THEN WriteSubs(st, subs, i + 1, c)
  ELSE WriteSubs(WriteSub(st, subs[i], c), subs, i + 1, c)

ManyText ==
  <<", (SELECT array_agg(dat__", ".*) FROM (", ") AS dat__", ") AS ">>

VectorText ==
  <<", (SELECT array_agg(dat__", ".dat__scalar) FROM (", ") AS dat__",
    "(dat__scalar)) AS ">>

OneText ==
  <<", (SELECT row_to_json(dat__", ".*) FROM (", ") AS dat__", ") AS ">>

ScalarText ==
  <<", (SELECT dat__", ".dat__scalar FROM (", ") AS dat__",
    "(dat__scalar) limit 1) AS ">>

\* the UNION list written as one slot: the binding of the last call alone
WriteUnionLast(st, subs, i) ==
  IF Len(subs) = 0 THEN st
  ELSE WriteString(
         WriteRelativeArgs(
           WriteString(WriteString(WriteString(st, " UNION "), subs[Len(subs)].alias),
                       " "),
           subs[Len(subs)]),
         " ")

RECURSIVE WriteUnion(_, _, _)
WriteUnion(st, subs, i) ==
  IF i > Len(subs) THEN st
  ELSE IF subs[i].nil THEN WriteUnion(st, subs, i + 1)
  ELSE WriteUnion(
         WriteString(
           WriteRelativeArgs(
             WriteString(WriteString(WriteString(st, " UNION "), subs[i].alias), " "),
             subs[i]),
           " "),
         subs, i + 1)

WrapOpen == "SELECT row_to_json(dat__item.*) FROM ( SELECT "

WrapClose == ") as dat__item"

\* WITH list, SELECT, DISTINCT, columns, then the MANY, VECTOR, ONE, SCALAR lists
DocWriteHead(b) ==
  WriteSubs(
    WriteSubs(
      WriteSubs(
        WriteSubs(
          WriteJoined(
            WriteDistinct(
              WriteString(WriteWith(NewRender, b.subQueriesWith, 1),
                          IF b.isParent THEN WrapOpen ELSE "SELECT "),
              b.sb),
            b.sb.columns, 1, ", "),
          b.subQueriesMany, 1, ManyText),
        b.subQueriesVector, 1, VectorText),
      b.subQueriesOne, 1, OneText),
    b.subQueriesScalar, 1, ScalarText)

\* FROM: the tables comma-joined, a space, then the joins
DocWriteFrom(st, b) ==
  IF Len(b.tableFragments) > 0
    THEN writeConcatFragmentsToSQL(
           WriteString(
             writeCommaFragmentsToSQL(WriteString(st, " FROM "), b.tableFragments),
             " "),
           b.joinFragments)
    ELSE st

\* DocWriteBody with the UNION list written after HAVING and ORDER BY
DocWriteBodyUnionLast(st, b) ==
  WriteUnion(
    WriteTail(
      WriteWhere(WriteScopeSQL(DocWriteFrom(st, b.sb), b.sb),
                 ScopedWhereFragments(b.sb)),
      b.sb),
    b.union, 1)

\* the body when InnerSQL was not called
DocWriteBody(st, b) ==
  WriteTail(
    WriteUnion(
      WriteWhere(WriteScopeSQL(DocWriteFrom(st, b.sb), b.sb),
                 ScopedWhereFragments(b.sb)),
      b.union, 1),
    b.sb)

DocRender(b) ==
  LET body == IF b.innerSQL.set
                THEN WriteRelativeArgs(DocWriteHead(b), b.innerSQL)
                ELSE DocWriteBody(DocWriteHead(b), b)
  IN IF b.isParent THEN WriteString(body, WrapClose) ELSE body

DocToSQL(b) ==
  IF b.err # NoErr THEN NewDatSQLErr(b.err)
  ELSE IF Len(b.sb.columns) + Len(b.subQueriesMany) + Len(b.subQueriesOne)
          + Len(b.subQueriesScalar) + Len(b.subQueriesVector) = 0
    THEN NewDatSQLErr(ErrNoColumns)
  ELSE IF Len(b.sb.tableFragments) = 0 /\ Len(b.sb.joinFragments) > 0
    THEN NewDatSQLErr(ErrJoinNoFrom)
  ELSE Result(DocRender(b).buf, DocRender(b).args, NoErr)

\* ToSQL assigns no field of the builder
DocAfterToSQL(b) == b

\* what sqlOrBuilder may be: a string with its args, a *SelectDocBuilder (one
\* of the doc builders), a Builder (a SelectBuilder), or a value of another type
StrOp(sql, args) == [t |-> "str", sql |-> sql, args |-> args, id |-> "", b |-> <<>>]

DocOp(id) == [t |-> "doc", sql |-> <<>>, args |-> <<>>, id |-> id, b |-> <<>>]

BuilderOp(b) == [t |-> "builder", sql |-> <<>>, args |-> <<>>, id |-> "", b |-> b]

BadOp == [t |-> "bad", sql |-> <<>>, args |-> <<>>, id |-> "", b |-> <<>>]

ErrOperand(name) ==
  name \o ": sqlOrbuilder accepts only {string, Builder, *SelectDocBuilder} type"

\* case *SelectDocBuilder: t.isParent = false, before t.ToSQL()
storeExprChild(docs, operand) ==
  IF operand.t = "doc" THEN [docs EXCEPT ![operand.id].isParent = FALSE] ELSE docs

\* storeExprCapture keeping the text of the child and not its arguments
storeExprCaptureText(r) == Expr(r.sql, <<>>)

\* the Expression stored for the sub-query: Expr(sql, args...)
storeExprCapture(r) == Expr(r.sql, r.args)

\* storeExpr with docs the builders after storeExprChild: the destination
\* list after the call and the error returned
storeExpr(destination, name, column, operand, docs) ==
  LET r == IF operand.t = "doc" THEN DocToSQL(docs[operand.id])
           ELSE IF operand.t = "builder" THEN SelectToSQL(operand.b)
           ELSE Result(operand.sql, operand.args, NoErr)
  IN IF operand.t = "bad"
       THEN [dest |-> destination, err |-> ErrOperand(name)]
     ELSE IF r.err # NoErr
       THEN [dest |-> destination, err |-> r.err]
     ELSE [dest |-> Append(destination, SubInfo(storeExprCapture(r), column)),
           err  |-> NoErr]

\* b.err = storeExpr(&b.<field>, name, column, sqlOrBuilder, a...)
DocStore(docs, p, field, name, column, operand) ==
  LET d1 == storeExprChild(docs, operand)
      r  == storeExpr(d1[p][field], name, column, operand, d1)
  IN [d1 EXCEPT ![p] = [@ EXCEPT ![field] = r.dest, !.err = r.err]]

\* With of a string or a builder: stores only when no error is recorded
DocWith(docs, p, column, operand) ==
  IF docs[p].err = NoErr
    THEN DocStore(docs, p, "subQueriesWith", "SelectDocBuilder.With", column, operand)
    ELSE docs

\* ---- arrayToTable: a slice as a virtual table
\* A slice handed to With: whether the value is a slice, whether its elements
\* are pointers, whether the element type is a struct, the SQL type of a
\* scalar element, the fields of a struct, and the elements.
Contents(slice, ptr, struct, type, fields, elems) ==
  [slice |-> slice, ptr |-> ptr, struct |-> struct, type |-> type,
   fields |-> fields, elems |-> elems]

\* a struct field: its db tag ("" when it has none), its SQL type, and
\* whether it is itself a struct
Field(db, type, nested) == [db |-> db, type |-> type, nested |-> nested]

\* an element: a nil pointer, or the values of the fields in order (the one
\* value of a scalar)
Elem(nil, vals) == [nil |-> nil, vals |-> vals]

ErrNotSlice == "arrayToTable can only take slices"

ErrNestedStruct == "Temporary tables cannot be built from nested structs"

\* a nil pointer to a scalar, bound as an argument
NilPtr == "(nil)"

\* Dialect.WriteReflectedType of reflect.SliceOf(type): text[], bigint[]
WriteReflectedType(st, type) == WriteString(st, type \o "[]")

writeQuotedIdentifier(st, alias) ==
  WriteText(st, <<Lit("\""), Lit(alias), Lit("\"")>>)

\* a placeholder for the next argument
WritePlaceholder(st, arg) ==
  [buf |-> st.buf \o <<Ph(st.pos)>>, args |-> Append(st.args, arg), pos |-> st.pos + 1]

\* the elements of a non-struct slice: val.Index(i).Interface() is bound for
\* every element, a nil pointer too
RECURSIVE WriteScalarArray(_, _, _)
WriteScalarArray(st, elems, i) ==
  IF i > Len(elems) THEN st
  ELSE WriteScalarArray(
         WritePlaceholder(IF i # 1 THEN WriteString(st, ",") ELSE st,
                          IF elems[i].nil THEN NilPtr ELSE elems[i].vals[1]),
         elems, i + 1)

\* field f of every element of a struct slice: NULL for a nil pointer
RECURSIVE WriteFieldArray(_, _, _, _)
WriteFieldArray(st, elems, f, j) ==
  IF j > Len(elems) THEN st
  ELSE LET s == IF j # 1 THEN WriteString(st, ",") ELSE st IN
       WriteFieldArray(
         IF elems[j].nil THEN WriteString(s, "NULL")
         ELSE WritePlaceholder(s, elems[j].vals[f]),
         elems, f, j + 1)

\* the loop over the fields: one UNNEST for every field with a db tag
RECURSIVE WriteFields(_, _, _, _)
WriteFields(st, c, i, writtenArrays) ==
  IF i > Len(c.fields) THEN [st |-> st, err |-> NoErr]
  ELSE IF c.fields[i].db = "" THEN WriteFields(st, c, i + 1, writtenArrays)
  ELSE IF c.fields[i].nested THEN [st |-> st, err |-> ErrNestedStruct]
  ELSE WriteFields(
         writeQuotedIdentifier(
           WriteString(
             WriteReflectedType(
               WriteString(
                 WriteFieldArray(
                   WriteString(IF writtenArrays # 0 THEN WriteString(st, ",") ELSE st,
                               " UNNEST(ARRAY["),
                   c.elems, i, 1),
                 "]::"),
               c.fields[i].type),
             ") AS "),
           c.fields[i].db),
         c, i + 1, writtenArrays + 1)

arrayToTable(contents) ==
  IF ~contents.slice THEN NewDatSQLErr(ErrNotSlice)
  ELSE IF ~contents.struct
    THEN LET st == WriteString(
                     WriteReflectedType(
                       WriteString(
                         WriteScalarArray(WriteString(NewRender, "SELECT UNNEST(ARRAY["),
                                          contents.elems, 1),
                         "]::"),
                       contents.type),
                     ") AS data ")
         IN Result(st.buf, st.args, NoErr)
  ELSE LET r == WriteFields(WriteString(NewRender, "SELECT "), contents, 1, 0)
       IN IF r.err # NoErr THEN NewDatSQLErr(r.err)
          ELSE Result(r.st.buf, r.st.args, NoErr)

\* With of a slice: sqlOrBuilder, a, b.err = arrayToTable(sqlOrBuilder), and
\* the store when that left no error
DocWithSlice(docs, p, column, contents) ==
  LET r == arrayToTable(contents) IN
  IF r.err # NoErr THEN [docs EXCEPT ![p].err = r.err]
  ELSE DocStore(docs, p, "subQueriesWith", "SelectDocBuilder.With", column,
                StrOp(r.sql, r.args))

DocMany(docs, p, column, operand) ==
  DocStore(docs, p, "subQueriesMany", "SelectDocBuilder.Many", column, operand)

DocVector(docs, p, column, operand) ==
  DocStore(docs, p, "subQueriesVector", "SelectDocBuilder.Vector", column, operand)

DocOne(docs, p, column, operand) ==
  DocStore(docs, p, "subQueriesOne", "SelectDocBuilder.One", column, operand)

DocScalar(docs, p, column, operand) ==
  DocStore(docs, p, "subQueriesScalar", "SelectDocBuilder.Scalar", column, operand)

DocUnion(docs, p, operand) ==
  DocStore(docs, p, "union", "SelectDocBuilder.Union", " ", operand)

DocUnionAll(docs, p, operand) ==
  DocStore(docs, p, "union", "SelectDocBuilder.UnionAll", " ALL ", operand)

\* the characters of the names used as aliases and in the lists of Whitelist
Chars(s) ==
  CASE s = ""    -> <<>>
    [] s = "*"   -> <<"*">>
    [] s = "f*"  -> <<"f", "*">>
    [] s = "fo*" -> <<"f", "o", "*">>
    [] s = "foo" -> <<"f", "o", "o">>
    [] OTHER     -> <<s>>

\* c[len(c)-1] == '*': the prefixes c[:len(c)-1], as characters
matchColumns(columns) ==
  LET stars == SelectSeq(columns,
                 LAMBDA c : Len(Chars(c)) > 0 /\ Chars(c)[Len(Chars(c))] = "*")
  IN [i \in 1..Len(stars) |-> SubSeq(Chars(stars[i]), 1, Len(Chars(stars[i])) - 1)]

eqColumns(columns) ==
  SelectSeq(columns,
            LAMBDA c : Len(Chars(c)) > 0 /\ Chars(c)[Len(Chars(c))] # "*")

\* len(c) <= len(alias) && alias[:len(c)] == c
HasPrefix(alias, c) ==
  Len(c) <= Len(Chars(alias)) /\ SubSeq(Chars(alias), 1, Len(c)) = c

\* a binding listed by a prefix only
ListedByPrefix(alias, match, eq) ==
  \E i \in 1..Len(match) : HasPrefix(alias, match[i])

\* argList[i] = nil: the binding is on the allow-list and stays
Listed(alias, match, eq) ==
  \/ \E i \in 1..Len(match) : HasPrefix(alias, match[i])
  \/ \E i \in 1..Len(eq) : eq[i] = alias

\* argList: the MANY, then the ONE, the VECTOR and the SCALAR bindings
argListFields ==
  <<"subQueriesMany", "subQueriesOne", "subQueriesVector", "subQueriesScalar">>

\* the loop over argList from place i of list f on: (*arg).alias of a binding
\* that is nil does not return; the bindings before it are already pruned
RECURSIVE Prune(_, _, _, _, _)
Prune(b, f, i, match, eq) ==
  IF f > Len(argListFields) THEN [b |-> b, panic |-> FALSE]
  ELSE IF i > Len(b[argListFields[f]]) THEN Prune(b, f + 1, 1, match, eq)
  ELSE IF b[argListFields[f]][i].nil /\ Len(match) + Len(eq) > 0
    THEN [b |-> b, panic |-> TRUE]
  ELSE IF ~b[argListFields[f]][i].nil
          /\ Listed(b[argListFields[f]][i].alias, match, eq)
    THEN Prune(b, f, i + 1, match, eq)
  ELSE Prune([b EXCEPT ![argListFields[f]][i] = NilSub], f, i + 1, match, eq)

\* Whitelist: the builder after the call, and whether the call panicked
DocWhitelist(b, columns) ==
  IF Len(columns) = 0 \/ \E i \in 1..Len(columns) : columns[i] = "*"
    THEN [b |-> b, panic |-> FALSE]
    ELSE Prune(b, 1, 1, matchColumns(columns), eqColumns(columns))

\* the methods SelectDocBuilder overrides: each calls the SelectBuilder's
DocColumns(b, columns) == [b EXCEPT !.sb = SbColumns(@, columns)]

DocDistinct(b) == [b EXCEPT !.sb = SbDistinct(@)]

DocDistinctOn(b, columns) == [b EXCEPT !.sb = SbDistinctOn(@, columns)]

DocFrom(b, in) == [b EXCEPT !.sb = SbFrom(@, in)]

DocJoin(b, keyword, in) == [b EXCEPT !.sb = SbJoin(@, keyword, in)]

DocFor(b, options) == [b EXCEPT !.sb = SbFor(@, options)]

DocScope(b, sql, args) == [b EXCEPT !.sb = SbScope(@, sql, args)]

DocWhere(b, in) == [b EXCEPT !.sb = SbWhere(@, in)]

DocGroupBy(b, group) == [b EXCEPT !.sb = SbGroupBy(@, group)]

DocHaving(b, in) == [b EXCEPT !.sb = SbHaving(@, in)]

DocOrderBy(b, in) == [b EXCEPT !.sb = SbOrderBy(@, in)]

DocLimit(b, limit) == [b EXCEPT !.sb = SbLimit(@, limit)]

DocOffset(b, offset) == [b EXCEPT !.sb = SbOffset(@, offset)]

DocPaginate(b, page, perPage) == [b EXCEPT !.sb = SbPaginate(@, page, perPage)]

(***************************************************************************)
(* InsertBuilder.                                                          *)
(***************************************************************************)
updateAction == "UPDATE"

excludedColumn == "EXCLUDED"

NewTarget == [column |-> "", constraint |-> "", indexPredicate |-> ""]

NewAction == [action |-> "", setClauses |-> <<>>, whereFragments |-> <<>>]

\* NewInsertBuilder returns nil for an empty table name
NewInsertBuilder(table) ==
  [nil              |-> table = "",
   table            |-> table,
   cols             |-> <<>>,
   isBlacklist      |-> FALSE,
   vals             |-> <<>>,
   records          |-> <<>>,
   onConflictTarget |-> NewTarget,
   onConflictAction |-> NewAction,
   returnings       |-> <<>>,
   err              |-> NoErr]

InsWhitelist(b, columns) == [b EXCEPT !.cols = columns]

InsColumns(b, columns) == InsWhitelist(b, columns)

InsBlacklist(b, columns) == [b EXCEPT !.isBlacklist = TRUE, !.cols = columns]

InsValues(b, row) == [b EXCEPT !.vals = Append(@, row)]

InsRecord(b, record) == [b EXCEPT !.records = Append(@, record)]

hasOneConflictTarget(t) ==
  LET hasColumn     == t.column # ""
      hasConstraint == t.constraint # ""
  IN (hasColumn /\ ~hasConstraint) \/ (~hasColumn /\ hasConstraint)

InsOnConflictColumn(b, column) == [b EXCEPT !.onConflictTarget.column = column]

InsOnConflictConstraint(b, constraint) ==
  [b EXCEPT !.onConflictTarget.constraint = constraint]

InsOnConflictWhere(b, column, indexPredicate) ==
  [b EXCEPT !.onConflictTarget.column = column,
            !.onConflictTarget.indexPredicate = indexPredicate]

ErrSetNoTarget == "A conflict_target must be provided for ON CONFLICT DO UPDATE"

ErrWhereNoUpdate == "conflict_action must be equal to UPDATE"

ErrPair == "pair only allows you to specify 1 record to insert"

\* Set that does not look at the conflict target
InsSetAnyTarget(b, column, value) ==
  [b EXCEPT !.onConflictAction.action = updateAction,
            !.onConflictAction.setClauses =
               Append(@, [column |-> column, value |-> value])]

InsSet(b, column, value) ==
  IF ~hasOneConflictTarget(b.onConflictTarget)
    THEN IF b.err = NoErr THEN [b EXCEPT !.err = ErrSetNoTarget] ELSE b
    ELSE [b EXCEPT !.onConflictAction.action = updateAction,
                   !.onConflictAction.setClauses =
                      Append(@, [column |-> column, value |-> value])]

\* SetMap: Set for every entry, here in the order given
RECURSIVE InsSetMap(_, _)
InsSetMap(b, clauses) ==
  IF clauses = <<>> THEN b
  ELSE InsSetMap(InsSet(b, Head(clauses).column, Head(clauses).value), Tail(clauses))

InsWhere(b, in) ==
  IF b.onConflictAction.action # updateAction
    THEN IF b.err = NoErr THEN [b EXCEPT !.err = ErrWhereNoUpdate] ELSE b
    ELSE LET f == newWhereFragment(in) IN
         IF f.err # NoErr
           THEN [b EXCEPT !.err = f.err]
           ELSE [b EXCEPT !.onConflictAction.whereFragments = Append(@, f.frag)]

InsReturning(b, columns) == [b EXCEPT !.returnings = columns]

InsPair(b, column, value) ==
  LET c == [b EXCEPT !.cols = Append(@, column)] IN
  IF Len(b.vals) = 0 THEN [c EXCEPT !.vals = << <<value>> >>]
  ELSE IF Len(b.vals) = 1 THEN [c EXCEPT !.vals[1] = Append(@, value)]
  ELSE [c EXCEPT !.err = ErrPair]

\* A record is a struct value: its db-tagged fields in order, and their values
Record(fields, values) == [fields |-> fields, values |-> values]

InSeq(x, seq) == \E i \in 1..Len(seq) : seq[i] = x

RECURSIVE Without(_, _)
Without(seq, drop) ==
  IF seq = <<>> THEN <<>>
  ELSE IF InSeq(Head(seq), drop) THEN Without(Tail(seq), drop)
  ELSE <<Head(seq)>> \o Without(Tail(seq), drop)

reflectColumns(rec) == rec.fields

reflectExcludeColumns(rec, cols) == Without(rec.fields, cols)

ErrNoField(col) == "could not map db column " \o col \o " to struct field"

FieldIndex(rec, col) == CHOOSE i \in 1..Len(rec.fields) : rec.fields[i] = col

\* valuesFor: the record's value for each column, or the error for the first
\* column the record has no field for
valuesFor(rec, cols) ==
  IF \E i \in 1..Len(cols) : ~InSeq(cols[i], rec.fields)
    THEN [vals |-> <<>>,
          err  |-> ErrNoField(cols[CHOOSE i \in 1..Len(cols) :
                                     /\ ~InSeq(cols[i], rec.fields)
                                     /\ \A j \in 1..(i - 1) : InSeq(cols[j], rec.fields)])]
    ELSE [vals |-> [i \in 1..Len(cols) |-> rec.values[FieldIndex(rec, cols[i])]],
          err  |-> NoErr]

\* ($start,$start+1,...)
buildPlaceholders(st, start, length) ==
  WriteString(
    WriteText(WriteString(st, "("),
              [i \in 1..(IF length = 0 THEN 0 ELSE 2 * length - 1) |->
                 IF i % 2 = 1 THEN Ph(start + (i - 1) \div 2) ELSE Lit(",")]),
    ")")

\* WriteRow with the placeholders of every group counted from $1
WriteRowFromOne(st, row, comma) ==
  LET s == buildPlaceholders(IF comma THEN WriteString(st, ",") ELSE st,
                             1, Len(row))
  IN [s EXCEPT !.args = @ \o row, !.pos = @ + Len(row)]

\* one VALUES group: the placeholders, then the values appended to args
WriteRow(st, row, comma) ==
  LET s == buildPlaceholders(IF comma THEN WriteString(st, ",") ELSE st,
                             st.pos, Len(row))
  IN [s EXCEPT !.args = @ \o row, !.pos = @ + Len(row)]

RECURSIVE WriteVals(_, _, _)
WriteVals(st, vals, i) ==
  IF i > Len(vals) THEN st
  ELSE WriteVals(WriteRow(st, vals[i], i > 1), vals, i + 1)

\* the records: the first error of valuesFor ends ToSQL
RECURSIVE WriteRecords(_, _, _, _, _)
WriteRecords(st, records, i, cols, anyVals) ==
  IF i > Len(records) THEN [st |-> st, err |-> NoErr]
  ELSE LET v == valuesFor(records[i], cols) IN
       IF v.err # NoErr THEN [st |-> st, err |-> v.err]
       ELSE WriteRecords(WriteRow(st, v.vals, i > 1 \/ anyVals),
                         records, i + 1, cols, anyVals)

\* a value of Set: an *Expression, a string, or any other value
ExprVal(sql, args) == [t |-> "expr", sql |-> sql, args |-> args, v |-> ""]

StrVal(s) == [t |-> "str", sql |-> <<>>, args |-> <<>>, v |-> s]

AnyVal(v) == [t |-> "val", sql |-> <<>>, args |-> <<>>, v |-> v]

\* a Set clause whose Expression leaves the cursor where it was
WriteSetClauseCursorKept(st, c) ==
  LET s == WriteString(st, c.column) IN
  IF c.value.t = "expr"
    THEN [buf  |-> s.buf \o <<Lit(" = ")>> \o remapPlaceholders(c.value.sql, s.pos),
          args |-> s.args \o c.value.args,
          pos  |-> s.pos]
  ELSE IF c.value.t = "str" /\ c.value.v = excludedColumn \o "." \o c.column
    THEN WriteString(WriteString(s, " = "), c.value.v)
  ELSE [buf  |-> s.buf \o <<Lit(" = "), Ph(s.pos)>>,
        args |-> Append(s.args, c.value.v),
        pos  |-> s.pos + 1]

WriteSetClause(st, c) ==
  LET s == WriteString(st, c.column) IN
  IF c.value.t = "expr"
    THEN [buf  |-> s.buf \o <<Lit(" = ")>> \o remapPlaceholders(c.value.sql, s.pos),
          args |-> s.args \o c.value.args,
          pos  |-> s.pos + Len(c.value.args)]
  ELSE IF c.value.t = "str" /\ c.value.v = excludedColumn \o "." \o c.column
    THEN WriteString(WriteString(s, " = "), c.value.v)
  ELSE [buf  |-> s.buf \o <<Lit(" = "), Ph(s.pos)>>,
        args |-> Append(s.args, c.value.v),
        pos  |-> s.pos + 1]

RECURSIVE WriteSetClauses(_, _, _)
WriteSetClauses(st, clauses, i) ==
  IF i > Len(clauses) THEN st
  ELSE WriteSetClauses(
         WriteSetClause(IF i > 1 THEN WriteString(st, ", ") ELSE st, clauses[i]),
         clauses, i + 1)

\* a conflict target written without its index predicate
WriteConflictTargetNoPredicate(st, t) ==
  IF t.column # ""
    THEN WriteText(st, <<Lit("("), Lit(t.column), Lit(")")>>)
  ELSE IF t.constraint # ""
    THEN WriteString(WriteString(st, "ON CONSTRAINT "), t.constraint)
  ELSE st

WriteConflictTarget(st, t) ==
  IF t.column # ""
    THEN LET s == WriteText(st, <<Lit("("), Lit(t.column), Lit(")")>>) IN
         IF t.indexPredicate # ""
           THEN WriteString(WriteString(s, " WHERE "), t.indexPredicate)
           ELSE s
  ELSE IF t.constraint # ""
    THEN WriteString(WriteString(st, "ON CONSTRAINT "), t.constraint)
  ELSE st

WriteConflictAction(st, a) ==
  IF a.action # updateAction THEN WriteString(st, " DO NOTHING")
  ELSE LET s == WriteSetClauses(WriteString(st, " DO UPDATE SET "), a.setClauses, 1) IN
       IF Len(a.whereFragments) > 0
         THEN writeAndFragmentsToSQL(WriteString(s, " WHERE "), a.whereFragments)
         ELSE s

WriteOnConflict(st, b) ==
  IF hasOneConflictTarget(b.onConflictTarget)
    THEN WriteConflictAction(
           WriteConflictTarget(WriteString(st, " ON CONFLICT "), b.onConflictTarget),
           b.onConflictAction)
    ELSE st

WriteReturning(st, b) ==
  IF Len(b.returnings) > 0
    THEN WriteJoined(WriteString(st, " RETURNING "), b.returnings, 1, ",")
    ELSE st

\* cols after the Blacklist step: the first record's fields without b.cols
ExcludedCols(b) ==
  IF Len(b.records) > 0 /\ b.isBlacklist
    THEN reflectExcludeColumns(b.records[1], b.cols)
    ELSE b.cols

\* the columns written: the builder's, or those reflected from the first record
ResolvedCols(b) ==
  IF Len(b.records) > 0 /\ ExcludedCols(b)[1] = "*"
    THEN reflectColumns(b.records[1])
    ELSE ExcludedCols(b)

\* the rows written with the records before the literal rows
InsertWriteRowsRecordsFirst(b) ==
  LET r == WriteRecords(
             WriteString(
               WriteJoined(
                 WriteString(WriteString(WriteString(NewRender, "INSERT INTO "), b.table),
                             " ("),
                 ResolvedCols(b), 1, ","),
               ") VALUES "),
             b.records, 1, ResolvedCols(b), FALSE)
  IN [st  |-> IF Len(b.records) > 0 /\ Len(b.vals) > 0
                THEN WriteVals(WriteString(r.st, ","), b.vals, 1)
                ELSE WriteVals(r.st, b.vals, 1),
      err |-> r.err]

InsertWriteRows(b) ==
  WriteRecords(
    WriteVals(
      WriteString(
        WriteJoined(
          WriteString(WriteString(WriteString(NewRender, "INSERT INTO "), b.table),
                      " ("),
          ResolvedCols(b), 1, ","),
        ") VALUES "),
      b.vals, 1),
    b.records, 1, ResolvedCols(b), Len(b.vals) > 0)

InsertRender(b) == WriteReturning(WriteOnConflict(InsertWriteRows(b).st, b), b)

ErrNoTable == "no table specified"

ErrInsNoColumns == "no columns specified"

ErrNoValues == "no values or records specified"

ErrStarNoRecord == "\"*\" can only be used in conjunction with Record"

ErrBlacklistNoRecord == "Blacklist can only be used in conjunction with Record"

\* the checks ToSQL makes before it writes anything
InsertValidate(b) ==
  IF b.err # NoErr THEN b.err
  ELSE IF b.table = "" THEN ErrNoTable
  ELSE IF Len(b.cols) = 0 THEN ErrInsNoColumns
  ELSE IF Len(b.vals) = 0 /\ Len(b.records) = 0 THEN ErrNoValues
  ELSE IF Len(b.records) = 0 /\ b.cols[1] = "*" THEN ErrStarNoRecord
  ELSE IF Len(b.records) = 0 /\ b.isBlacklist THEN ErrBlacklistNoRecord
  ELSE NoErr

ErrNilDeref == "invalid memory address or nil pointer dereference"

ErrIndexRange == "index out of range"

\* b.err on the nil builder and cols[0] of an empty cols do not return
InsertToSQL(b) ==
  IF b.nil THEN Panic(ErrNilDeref)
  ELSE IF InsertValidate(b) # NoErr THEN Result(<<>>, <<>>, InsertValidate(b))
  ELSE IF Len(b.records) > 0 /\ Len(ExcludedCols(b)) = 0 THEN Panic(ErrIndexRange)
  ELSE IF InsertWriteRows(b).err # NoErr
    THEN Result(<<>>, <<>>, InsertWriteRows(b).err)
  ELSE Result(InsertRender(b).buf, InsertRender(b).args, NoErr)

\* ToSQL assigns no field of the builder
InsertAfterToSQL(b) == b

(***************************************************************************)
(* The state machine.  ins is the InsertBuilder, sel the SelectBuilder,    *)
(* doc the SelectDocBuilders.  res is what the last call returned when it  *)
(* was a ToSQL call: the builder, the result, and whether the call before  *)
(* it was a ToSQL call on the same builder too.  calls counts the chaining *)
(* calls made on each family of builders.  hist is history: the first      *)
(* error a chaining call recorded on ins and on sel, whether a sub-query   *)
(* failed to resolve in a call on a doc builder, and the last chaining     *)
(* call: the builder, the method, and the doc builder passed to it.        *)
(***************************************************************************)
DocIds == {"d1", "d2"}

Families == {"ins", "sel", "doc"}

NoRes == [who |-> "", r |-> Result(<<>>, <<>>, NoErr), again |-> FALSE]

NewHist ==
  [insFirstErr |-> NoErr,
   selFirstErr |-> NoErr,
   subFailed   |-> [d \in DocIds |-> FALSE],
   misordered  |-> FALSE,
   wheres      |-> <<>>,
   columns     |-> <<>>,
   unions      |-> <<>>,
   contents    |-> <<>>,
   before      |-> <<>>,
   ret         |-> "",
   last        |-> [who |-> "", call |-> "", arg |-> ""]]

\* the values bound in the calls on builder who: one per clause
Val(who, clause) == who \o "." \o clause

\* "<who>.<clause> = $1" bound to the value of that name
Bind1(who, clause) ==
  StrIn(<<Lit(Val(who, clause)), Ph(1)>>, <<Val(who, clause)>>)

\* "<who>.<clause>1 = $1 AND <who>.<clause>2 = $2"
Bind2(who, clause) ==
  StrIn(<<Lit(Val(who, clause \o "1")), Ph(1), Lit(Val(who, clause \o "2")), Ph(2)>>,
        <<Val(who, clause \o "1"), Val(who, clause \o "2")>>)

Text0(s) == StrIn(<<Lit(s)>>, <<>>)

StrOpOf(in) == StrOp(in.sql, in.args)

InitBuilders ==
  /\ sel = NewSelectBuilder(<<"id">>)
  /\ doc = [d \in DocIds |-> NewSelectDocBuilder(<<"id">>)]
  /\ res = NoRes
  /\ calls = [f \in Families |-> 0]
  /\ hist = NewHist

Init ==
  /\ ins \in {NewInsertBuilder("a"), NewInsertBuilder("")}
  /\ InitBuilders

\* a ToSQL call on builder who returned r
Returned(who, r) == res' = [who |-> who, r |-> r, again |-> res.who = who]

\* ---- the SelectDocBuilders
\* a chaining call on doc builder p: the builders after it, and whether
\* storeExpr returned an error in it
DocCall(max, p, call, arg, newdocs, failed) ==
  /\ calls["doc"] < max
  /\ doc' = newdocs
  /\ res' = NoRes
  /\ calls' = [calls EXCEPT !["doc"] = @ + 1]
  /\ hist' = [hist EXCEPT !.subFailed[p] = @ \/ failed,
                          !.unions = IF call \in {"Union", "UnionAll"}
                                       THEN Append(@, p) ELSE @,
                          !.ret = "self",
                          !.last = [who |-> p, call |-> call, arg |-> arg]]
  /\ UNCHANGED <<ins, sel>>

\* storeExpr returns an error for this operand
FailsToResolve(operand) ==
  storeExpr(<<>>, "", "", operand, storeExprChild(doc, operand)).err # NoErr

CallDocWith(max, p, ops) ==
  \E operand \in ops :
    DocCall(max, p, "With", operand.id, DocWith(doc, p, "w", operand),
            doc[p].err = NoErr /\ FailsToResolve(operand))

CallDocMany(max, p, ops) ==
  \E operand \in ops :
    DocCall(max, p, "Many", operand.id, DocMany(doc, p, "m", operand),
            FailsToResolve(operand))

CallDocVector(max, p, ops) ==
  \E operand \in ops :
    DocCall(max, p, "Vector", operand.id, DocVector(doc, p, "v", operand),
            FailsToResolve(operand))

CallDocOne(max, p, ops) ==
  \E operand \in ops :
    DocCall(max, p, "One", operand.id, DocOne(doc, p, "o", operand),
            FailsToResolve(operand))

CallDocScalar(max, p, ops) ==
  \E operand \in ops :
    DocCall(max, p, "Scalar", operand.id, DocScalar(doc, p, "s", operand),
            FailsToResolve(operand))

CallDocUnion(max, p, ops) ==
  \E operand \in ops :
    DocCall(max, p, "Union", operand.id, DocUnion(doc, p, operand),
            FailsToResolve(operand))

CallDocUnionAll(max, p, ops) ==
  \E operand \in ops :
    DocCall(max, p, "UnionAll", operand.id, DocUnionAll(doc, p, operand),
            FailsToResolve(operand))

CallDocColumns(max, p, inputs) ==
  \E columns \in inputs :
    DocCall(max, p, "Columns", "", [doc EXCEPT ![p] = DocColumns(@, columns)], FALSE)

CallDocFrom(max, p, inputs) ==
  \E in \in inputs :
    DocCall(max, p, "From", "", [doc EXCEPT ![p] = DocFrom(@, in)], FALSE)

CallDocJoin(max, p, inputs) ==
  \E in \in inputs :
    DocCall(max, p, "Join", "",
            [doc EXCEPT ![p] = DocJoin(@, "INNER JOIN ", in)], FALSE)

CallDocScope(max, p, inputs) ==
  \E in \in inputs :
    DocCall(max, p, "Scope", "",
            [doc EXCEPT ![p] = DocScope(@, in.sql, in.args)], FALSE)

CallDocWhere(max, p, inputs) ==
  \E in \in inputs :
    DocCall(max, p, "Where", "", [doc EXCEPT ![p] = DocWhere(@, in)], FALSE)

CallDocHaving(max, p, inputs) ==
  \E in \in inputs :
    DocCall(max, p, "Having", "", [doc EXCEPT ![p] = DocHaving(@, in)], FALSE)

CallDocOrderBy(max, p, inputs) ==
  \E in \in inputs :
    DocCall(max, p, "OrderBy", "", [doc EXCEPT ![p] = DocOrderBy(@, in)], FALSE)

CallDocInnerSQL(max, p, inputs) ==
  \E in \in inputs :
    DocCall(max, p, "InnerSQL", "",
            [doc EXCEPT ![p] = DocInnerSQL(@, in.sql, in.args)], FALSE)

\* the embedding calls with the alias an input
CallDocManyAs(max, p, aliases, ops) ==
  \E column \in aliases, operand \in ops :
    DocCall(max, p, "Many", column, DocMany(doc, p, column, operand),
            FailsToResolve(operand))

CallDocOneAs(max, p, aliases, ops) ==
  \E column \in aliases, operand \in ops :
    DocCall(max, p, "One", column, DocOne(doc, p, column, operand),
            FailsToResolve(operand))

CallDocVectorAs(max, p, aliases, ops) ==
  \E column \in aliases, operand \in ops :
    DocCall(max, p, "Vector", column, DocVector(doc, p, column, operand),
            FailsToResolve(operand))

CallDocScalarAs(max, p, aliases, ops) ==
  \E column \in aliases, operand \in ops :
    DocCall(max, p, "Scalar", column, DocScalar(doc, p, column, operand),
            FailsToResolve(operand))

\* Whitelist: hist keeps the list and the builder the call was made on
CallDocWhitelist(max, p, inputs) ==
  \E columns \in inputs :
    LET r == DocWhitelist(doc[p], columns) IN
    /\ calls["doc"] < max
    /\ doc' = [doc EXCEPT ![p] = r.b]
    /\ res' = IF r.panic THEN [NoRes EXCEPT !.r = Panic(ErrNilDeref)] ELSE NoRes
    /\ calls' = [calls EXCEPT !["doc"] = @ + 1]
    /\ hist' = [hist EXCEPT !.ret = IF r.panic THEN "" ELSE "self",
                            !.columns = columns,
                            !.before = <<doc[p]>>,
                            !.last = [who |-> p, call |-> "Whitelist", arg |-> ""]]
    /\ UNCHANGED <<ins, sel>>

CallDocWithSlice(max, p, inputs) ==
  \E contents \in inputs :
    /\ calls["doc"] < max
    /\ doc' = DocWithSlice(doc, p, "w", contents)
    /\ res' = NoRes
    /\ calls' = [calls EXCEPT !["doc"] = @ + 1]
    /\ hist' = [hist EXCEPT !.ret = "self",
                            !.contents = <<contents>>,
                            !.last = [who |-> p, call |-> "With", arg |-> "slice"]]
    /\ UNCHANGED <<ins, sel>>

CallDocToSQL(p) ==
  /\ Returned(p, DocToSQL(doc[p]))
  /\ doc' = [doc EXCEPT ![p] = DocAfterToSQL(@)]
  /\ UNCHANGED <<ins, sel, calls, hist>>

InitDoc == ins = NewInsertBuilder("a") /\ InitBuilders

\* Composition: d1 is the outer builder and d2 the inner one.  d1 embeds
\* strings and d2, in every role; d2 embeds strings, the SelectBuilder and d1.
OuterOps == {StrOpOf(Bind1("d1", "sub")), DocOp("d2")}

InnerOps == {StrOpOf(Bind1("d2", "sub")), BuilderOp(sel), DocOp("d1")}

\* "INNER JOIN posts WHERE d1.scope = $1"
ScopeIn(who) ==
  StrIn(<<Lit("INNER JOIN posts"), Lit("WHERE")>> \o Bind1(who, "scope").sql,
        Bind1(who, "scope").args)

NextDoc ==
  \/ CallDocWith(MaxDocCalls, "d1", OuterOps)
  \/ CallDocMany(MaxDocCalls, "d1", OuterOps)
  \/ CallDocVector(MaxDocCalls, "d1", OuterOps)
  \/ CallDocOne(MaxDocCalls, "d1", OuterOps)
  \/ CallDocScalar(MaxDocCalls, "d1", OuterOps)
  \/ CallDocUnion(MaxDocCalls, "d1", OuterOps)
  \/ CallDocUnionAll(MaxDocCalls, "d1", OuterOps)
  \/ CallDocFrom(MaxDocCalls, "d1", {Bind1("d1", "from")})
  \/ CallDocJoin(MaxDocCalls, "d1", {Bind1("d1", "join")})
  \/ CallDocScope(MaxDocCalls, "d1", {ScopeIn("d1")})
  \/ CallDocWhere(MaxDocCalls, "d1", {Bind1("d1", "where")})
  \/ CallDocHaving(MaxDocCalls, "d1", {Bind1("d1", "having")})
  \/ CallDocOrderBy(MaxDocCalls, "d1", {Bind1("d1", "order")})
  \/ CallDocMany(MaxDocCalls, "d2", InnerOps)
  \/ CallDocWhere(MaxDocCalls, "d2", {Bind2("d2", "where")})
  \/ \E p \in DocIds : CallDocToSQL(p)

SpecDoc == InitDoc /\ [][NextDoc]_vars

\* InnerSQL beside the clauses of the body.
\* "FROM people WHERE d1.inner = $1"
InnerIn(who) ==
  StrIn(<<Lit("FROM people WHERE ")>> \o Bind1(who, "inner").sql,
        Bind1(who, "inner").args)

MaxInnerCalls == 3

NextInner ==
  \/ CallDocInnerSQL(MaxInnerCalls, "d1", {InnerIn("d1")})
  \/ CallDocUnion(MaxInnerCalls, "d1", {StrOpOf(Bind1("d1", "union"))})
  \/ CallDocUnionAll(MaxInnerCalls, "d1", {StrOpOf(Bind1("d1", "all"))})
  \/ CallDocFrom(MaxInnerCalls, "d1", {Bind1("d1", "from")})
  \/ CallDocWhere(MaxInnerCalls, "d1", {Bind1("d1", "where")})
  \/ CallDocOrderBy(MaxInnerCalls, "d1", {Bind1("d1", "order")})
  \/ CallDocToSQL("d1")

SpecInner == InitDoc /\ [][NextInner]_vars

\* Virtual tables: slices of structs and of scalars, of values and of
\* pointers, with every choice of nil pointers among up to MaxElems elements.
MaxElems == 3

MaxTableCalls == 2

ElemNames == <<"e1", "e2", "e3", "e4", "e5">>

\* struct { ID int `db:"id"`; Note string; Name string `db:"name"` }
TableFields ==
  <<Field("id", "bigint", FALSE), Field("", "text", FALSE), Field("name", "text", FALSE)>>

FieldNames == <<"id", "note", "name">>

\* which elements are nil pointers
Masks(ptr) ==
  UNION {[1..n -> (IF ptr THEN BOOLEAN ELSE {FALSE})] : n \in 0..MaxElems}

StructElem(j, nil) ==
  Elem(nil, IF nil THEN <<>>
            ELSE [k \in 1..Len(TableFields) |-> ElemNames[j] \o "." \o FieldNames[k]])

ScalarElem(j, nil) == Elem(nil, IF nil THEN <<>> ELSE <<ElemNames[j]>>)

StructSlices ==
  UNION {{Contents(TRUE, ptr, TRUE, "", TableFields,
                   [j \in DOMAIN m |-> StructElem(j, m[j])]) : m \in Masks(ptr)}
         : ptr \in BOOLEAN}

ScalarSlices ==
  UNION {{Contents(TRUE, ptr, FALSE, "text", <<>>,
                   [j \in DOMAIN m |-> ScalarElem(j, m[j])]) : m \in Masks(ptr)}
         : ptr \in BOOLEAN}

NestedSlice ==
  Contents(TRUE, FALSE, TRUE, "", <<Field("id", "bigint", FALSE), Field("in", "", TRUE)>>,
           <<Elem(FALSE, <<"e1.id", "e1.in">>)>>)

Tables == StructSlices \cup ScalarSlices \cup {NestedSlice}

NextTable ==
  \/ CallDocWithSlice(MaxTableCalls, "d1", Tables)
  \/ CallDocFrom(MaxTableCalls, "d1", {Text0("w")})
  \/ CallDocWhere(MaxTableCalls, "d1", {Bind1("d1", "where")})
  \/ CallDocToSQL("d1")

SpecTable == InitDoc /\ [][NextTable]_vars

ErrOps(p) ==
  {StrOpOf(Bind1(p, "sub")), BadOp, BuilderOp(sel)}
    \cup {DocOp(c) : c \in DocIds \ {p}}

NextDocErr ==
  \E p \in DocIds :
    \/ CallDocWith(MaxErrCalls, p, ErrOps(p))
    \/ CallDocMany(MaxErrCalls, p, ErrOps(p))
    \/ CallDocVector(MaxErrCalls, p, ErrOps(p))
    \/ CallDocOne(MaxErrCalls, p, ErrOps(p))
    \/ CallDocScalar(MaxErrCalls, p, ErrOps(p))
    \/ CallDocUnion(MaxErrCalls, p, ErrOps(p))
    \/ CallDocUnionAll(MaxErrCalls, p, ErrOps(p))
    \/ CallDocColumns(MaxErrCalls, p, {<<>>, <<"name">>})
    \/ CallDocFrom(MaxErrCalls, p, {Bind1(p, "from")})
    \/ CallDocJoin(MaxErrCalls, p, {Bind1(p, "join")})
    \/ CallDocWhere(MaxErrCalls, p, {Bind1(p, "where"), BadIn})
    \/ CallDocHaving(MaxErrCalls, p, {Bind1(p, "having"), BadIn})
    \/ CallDocOrderBy(MaxErrCalls, p, {Bind1(p, "order"), BadIn})
    \/ CallDocToSQL(p)

SpecDocErr == InitDoc /\ [][NextDocErr]_vars

\* Whitelist: bindings of every role under the aliases f, foo, x and y, and
\* the lists of Whitelist; a call that panicked ends the run
Running == ~res.r.panic

Lists == {<<>>, <<"*">>, <<"f*", "x">>, <<"x", "f*">>, <<"foo">>, <<"">>, <<"y", "*">>}

NextWhitelist ==
  \/ Running /\ CallDocManyAs(MaxListCalls, "d1", {"f", "x", "y"}, {StrOpOf(Bind1("d1", "sub"))})
  \/ Running /\ CallDocOneAs(MaxListCalls, "d1", {"foo"}, {StrOpOf(Bind1("d1", "sub"))})
  \/ Running /\ CallDocVectorAs(MaxListCalls, "d1", {"y"}, {StrOpOf(Bind1("d1", "sub"))})
  \/ Running /\ CallDocScalarAs(MaxListCalls, "d1", {"x"}, {StrOpOf(Bind1("d1", "sub"))})
  \/ Running /\ CallDocWith(MaxListCalls, "d1", {StrOpOf(Bind1("d1", "sub"))})
  \/ Running /\ CallDocUnion(MaxListCalls, "d1", {StrOpOf(Bind1("d1", "sub"))})
  \/ Running /\ CallDocWhitelist(MaxListCalls, "d1", Lists)
  \/ Running /\ CallDocToSQL("d1")

SpecWhitelist == InitDoc /\ [][NextWhitelist]_vars

\* ---- the InsertBuilder
\* Set or SetMap (of at least one pair) without one conflict target, or Where
\* without the UPDATE action
Misordered(call, arg, b) ==
  \/ /\ call = "Set" \/ (call = "SetMap" /\ arg # "empty")
     /\ ~hasOneConflictTarget(b.onConflictTarget)
  \/ call = "Where" /\ b.onConflictAction.action # updateAction

\* a chaining call on ins: a call on the nil builder does not return
InsCall(max, call, arg, b) ==
  /\ calls["ins"] < max
  /\ ~res.r.panic
  /\ calls' = [calls EXCEPT !["ins"] = @ + 1]
  /\ IF ins.nil
       THEN /\ ins' = ins
            /\ res' = [NoRes EXCEPT !.r = Panic(ErrNilDeref)]
            /\ hist' = hist
       ELSE /\ ins' = b
            /\ res' = NoRes
            /\ hist' = [hist EXCEPT
                 !.insFirstErr = IF @ = NoErr THEN b.err ELSE @,
                 !.misordered = @ \/ Misordered(call, arg, ins),
                 !.ret = "self",
                 !.last = [who |-> "ins", call |-> call, arg |-> arg]]
  /\ UNCHANGED <<sel, doc>>

CallInsColumns(max, inputs) ==
  \E columns \in inputs : InsCall(max, "Columns", "", InsColumns(ins, columns))

CallInsBlacklist(max, inputs) ==
  \E columns \in inputs : InsCall(max, "Blacklist", "", InsBlacklist(ins, columns))

CallInsValues(max, inputs) ==
  \E row \in inputs : InsCall(max, "Values", "", InsValues(ins, row))

CallInsRecord(max, inputs) ==
  \E record \in inputs : InsCall(max, "Record", "", InsRecord(ins, record))

CallInsOnConflictColumn(max, inputs) ==
  \E column \in inputs :
    InsCall(max, "OnConflictColumn", "", InsOnConflictColumn(ins, column))

CallInsOnConflictConstraint(max, inputs) ==
  \E constraint \in inputs :
    InsCall(max, "OnConflictConstraint", "", InsOnConflictConstraint(ins, constraint))

CallInsOnConflictWhere(max, inputs) ==
  \E t \in inputs :
    InsCall(max, "OnConflictWhere", "",
            InsOnConflictWhere(ins, t.column, t.indexPredicate))

CallInsSet(max, inputs) ==
  \E c \in inputs : InsCall(max, "Set", "", InsSet(ins, c.column, c.value))

\* the pairs of the map, in any order: the order of a range over a map
CallInsSetMap(max, inputs) ==
  \E clauses \in inputs :
    InsCall(max, "SetMap", IF clauses = <<>> THEN "empty" ELSE "pairs",
            InsSetMap(ins, clauses))

CallInsWhere(max, inputs) ==
  \E in \in inputs : InsCall(max, "Where", "", InsWhere(ins, in))

CallInsPair(max, inputs) ==
  \E c \in inputs : InsCall(max, "Pair", "", InsPair(ins, c.column, c.value))

CallInsReturning(max, inputs) ==
  \E columns \in inputs : InsCall(max, "Returning", "", InsReturning(ins, columns))

CallInsToSQL ==
  /\ ~res.r.panic
  /\ Returned("ins", InsertToSQL(ins))
  /\ ins' = InsertAfterToSQL(ins)
  /\ UNCHANGED <<sel, doc, calls, hist>>

\* rows of one and of two values, named by row and place
Rows == {<<"r1c1">>, <<"r1c1", "r1c2">>, <<"r2c1", "r2c2">>}

Person == Record(<<"b", "c">>, <<"rec.b", "rec.c">>)

Other == Record(<<"b", "c">>, <<"oth.b", "oth.c">>)

NextInsert ==
  \/ CallInsColumns(MaxInsCalls, {<<>>, <<"b">>, <<"b", "c">>, <<"*">>})
  \/ CallInsBlacklist(MaxInsCalls, {<<"b">>, <<"b", "c">>})
  \/ CallInsValues(MaxInsCalls, Rows)
  \/ CallInsRecord(MaxInsCalls, {Person, Other})
  \/ CallInsOnConflictColumn(MaxInsCalls, {"b"})
  \/ CallInsSet(MaxInsCalls, {[column |-> "c", value |-> AnyVal("set.c")]})
  \/ CallInsWhere(MaxInsCalls, {Bind1("ins", "where"), BadIn})
  \/ CallInsPair(MaxInsCalls, {[column |-> "d", value |-> "pair.d"]})
  \/ CallInsReturning(MaxInsCalls, {<<"id">>})
  \/ CallInsToSQL

SpecInsert == Init /\ [][NextInsert]_vars

\* Upserts: one row from Pair, the conflict targets, and Set values of every
\* kind: a value, EXCLUDED.<column>, an Expression
SetAny == [column |-> "c", value |-> AnyVal("set.c")]

SetExcluded == [column |-> "c", value |-> StrVal("EXCLUDED.c")]

SetExpr ==
  [column |-> "e", value |-> ExprVal(<<Lit("set.e"), Ph(1)>>, <<"set.e">>)]

NextUpsert ==
  \/ CallInsPair(MaxUpsertCalls, {[column |-> "d", value |-> "pair.d"]})
  \/ CallInsOnConflictColumn(MaxUpsertCalls, {"b", ""})
  \/ CallInsOnConflictConstraint(MaxUpsertCalls, {"k"})
  \/ CallInsOnConflictWhere(MaxUpsertCalls,
                            {[column |-> "b", indexPredicate |-> "b > 0"]})
  \/ CallInsSet(MaxUpsertCalls, {SetAny, SetExcluded, SetExpr})
  \/ CallInsSetMap(MaxUpsertCalls,
                   {<<>>, <<SetAny, SetExpr>>, <<SetExpr, SetAny>>})
  \/ CallInsWhere(MaxUpsertCalls, {Bind1("ins", "where")})
  \/ CallInsToSQL

SpecUpsert == InitDoc /\ [][NextUpsert]_vars

\* ---- the SelectBuilder
\* a chaining call on the SelectBuilder: the builder after it and what the
\* call returned, the builder itself or nil
SelCall(max, call, in, b, ret) ==
  /\ calls["sel"] < max
  /\ sel' = b
  /\ res' = NoRes
  /\ calls' = [calls EXCEPT !["sel"] = @ + 1]
  /\ hist' = [hist EXCEPT
       !.selFirstErr = IF @ = NoErr THEN b.err ELSE @,
       !.wheres = IF call = "Where" THEN Append(@, in) ELSE @,
       !.ret = ret,
       !.last = [who |-> "sel", call |-> call, arg |-> ""]]
  /\ UNCHANGED <<ins, doc>>

CallSelColumns(max, inputs) ==
  \E columns \in inputs :
    SelCall(max, "Columns", columns, SbColumns(sel, columns),
            SbColumnsReturn(sel, columns))

CallSelFrom(max, inputs) ==
  \E in \in inputs : SelCall(max, "From", in, SbFrom(sel, in), "self")

CallSelJoin(max, inputs) ==
  \E in \in inputs : SelCall(max, "Join", in, SbJoin(sel, "INNER JOIN ", in), "self")

CallSelScope(max, inputs) ==
  \E in \in inputs : SelCall(max, "Scope", in, SbScope(sel, in.sql, in.args), "self")

CallSelWhere(max, inputs) ==
  \E in \in inputs : SelCall(max, "Where", in, SbWhere(sel, in), "self")

CallSelHaving(max, inputs) ==
  \E in \in inputs : SelCall(max, "Having", in, SbHaving(sel, in), "self")

CallSelOrderBy(max, inputs) ==
  \E in \in inputs : SelCall(max, "OrderBy", in, SbOrderBy(sel, in), "self")

CallSelLimit(max, inputs) ==
  \E limit \in inputs : SelCall(max, "Limit", limit, SbLimit(sel, limit), "self")

CallSelToSQL ==
  /\ Returned("sel", SelectToSQL(sel))
  /\ sel' = SelectAfterToSQL(sel)
  /\ UNCHANGED <<ins, doc, calls, hist>>

NextSelect ==
  \/ CallSelColumns(MaxSelCalls, {<<>>, <<"name">>})
  \/ CallSelFrom(MaxSelCalls, {Bind1("sel", "from")})
  \/ CallSelJoin(MaxSelCalls, {Bind1("sel", "join")})
  \/ CallSelScope(MaxSelCalls, {ScopeIn("sel")})
  \/ CallSelWhere(MaxSelCalls, {Bind1("sel", "where"), BadIn})
  \/ CallSelHaving(MaxSelCalls, {Bind1("sel", "having"), BadIn})
  \/ CallSelOrderBy(MaxSelCalls, {Bind1("sel", "order"), BadIn})
  \/ CallSelLimit(MaxSelCalls, {10})
  \/ CallSelToSQL

SpecSelect == InitDoc /\ [][NextSelect]_vars

\* Scopes: with a WHERE part, and join-only with and without a placeholder
\* "INNER JOIN posts ON <who>.scope = $1"
JoinScopeIn(who) ==
  StrIn(<<Lit("INNER JOIN posts ON ")>> \o Bind1(who, "scope").sql,
        Bind1(who, "scope").args)

MaxScopeCalls == 4

NextScope ==
  \/ CallSelFrom(MaxScopeCalls, {Bind1("sel", "from"), Text0("users")})
  \/ CallSelJoin(MaxScopeCalls, {Bind1("sel", "join")})
  \/ CallSelScope(MaxScopeCalls,
                  {ScopeIn("sel"), JoinScopeIn("sel"), Text0("INNER JOIN posts")})
  \/ CallSelWhere(MaxScopeCalls, {Bind1("sel", "where")})
  \/ CallSelHaving(MaxScopeCalls, {Bind1("sel", "having")})
  \/ CallSelToSQL

SpecScope == InitDoc /\ [][NextScope]_vars

\* Where with column -> value maps of every kind of value
EqInputs ==
  {EqIn("a", Scalar("a.v")), EqIn("a", NilVal), EqIn("a", NilSlice),
   EqIn("a", Slice("ids", <<>>)), EqIn("a", Slice("ids", <<"ids.1">>)),
   EqIn("a", Slice("ids", <<"ids.1", "ids.2">>))}

NextWhere ==
  \/ CallSelFrom(MaxWhereCalls, {Bind1("sel", "from")})
  \/ CallSelWhere(MaxWhereCalls, {Bind1("sel", "where")} \cup EqInputs)
  \/ CallSelToSQL

SpecWhere == InitDoc /\ [][NextWhere]_vars

\* ---- every builder, one family in a run
\* no call was made on a builder of another family
Only(f) ==
  /\ \A g \in Families \ {f} : calls[g] = 0
  /\ res.who \in (IF f = "doc" THEN DocIds ELSE {f}) \cup {""}

NextMixedDoc ==
  \/ CallDocWith(MaxMixedCalls, "d1", OuterOps)
  \/ CallDocMany(MaxMixedCalls, "d1", OuterOps)
  \/ CallDocUnion(MaxMixedCalls, "d1", OuterOps)
  \/ CallDocScope(MaxMixedCalls, "d1", {ScopeIn("d1")})
  \/ CallDocWhere(MaxMixedCalls, "d1", {Bind1("d1", "where"), BadIn})
  \/ CallDocMany(MaxMixedCalls, "d2", InnerOps)
  \/ \E p \in DocIds : CallDocToSQL(p)

Next ==
  \/ Only("ins") /\ NextInsert
  \/ Only("sel") /\ NextSelect
  \/ Only("doc") /\ NextMixedDoc

Spec == Init /\ [][Next]_vars

(***************************************************************************)
(* Properties of SelectDocBuilder.                                         *)
(***************************************************************************)
\* what the last call, a ToSQL on a doc builder, rendered without error
DocRendered == res.who \in DocIds /\ ~res.r.panic /\ res.r.err = NoErr

NonNil(subs) == SelectSeq(subs, LAMBDA x : ~x.nil)

Piece(seq, isSub) ==
  [i \in 1..Len(seq) |-> [sql |-> seq[i].sql, args |-> seq[i].args, sub |-> isSub]]

ScopeWherePiece(sb) ==
  IF sb.scope.set /\ splitWhere(sb.scope.sql).where # <<>>
    THEN <<[sql |-> splitWhere(sb.scope.sql).where, args |-> sb.scope.args,
            sub |-> FALSE]>>
    ELSE <<>>

\* the fragments of a doc builder in the order of the statement: the WITH
\* list, MANY, VECTOR, ONE, SCALAR, then FROM, JOIN, WHERE with the scope's,
\* UNION, HAVING, ORDER BY
RenderOrder(b) ==
  Piece(b.subQueriesWith, TRUE) \o Piece(NonNil(b.subQueriesMany), TRUE)
    \o Piece(NonNil(b.subQueriesVector), TRUE) \o Piece(NonNil(b.subQueriesOne), TRUE)
    \o Piece(NonNil(b.subQueriesScalar), TRUE)
    \o (IF b.innerSQL.set THEN Piece(<<b.innerSQL>>, FALSE)
        ELSE (IF Len(b.sb.tableFragments) > 0
                THEN Piece(b.sb.tableFragments, FALSE) \o Piece(b.sb.joinFragments, FALSE)
                ELSE <<>>)
             \o Piece(b.sb.whereFragments, FALSE) \o ScopeWherePiece(b.sb)
             \o Piece(NonNil(b.union), TRUE)
             \o Piece(b.sb.havingFragments, FALSE) \o Piece(b.sb.orderBys, FALSE))

RECURSIVE ArgsBefore(_, _)
ArgsBefore(pieces, i) ==
  IF i <= 1 THEN 0 ELSE ArgsBefore(pieces, i - 1) + Len(pieces[i - 1].args)

RECURSIVE ConcatArgs(_)
ConcatArgs(pieces) ==
  IF pieces = <<>> THEN <<>> ELSE Head(pieces).args \o ConcatArgs(Tail(pieces))

\* placeholders $1..$k for k arguments
WellFormed(f) == MarkerSet(f.sql) = 1..Len(f.args)

Contains(text, part) ==
  \E o \in 0..(Len(text) - Len(part)) : SubSeq(text, o + 1, o + Len(part)) = part

Shifted(text, p) ==
  [i \in 1..Len(text) |-> IF IsPh(text[i]) THEN Ph(text[i].n + p) ELSE text[i]]

\* the sub-query at place i of the statement is rendered at $(p+1)..$(p+k),
\* its arguments at p+1..p+k
SubAt(r, pieces, i) ==
  LET p == ArgsBefore(pieces, i)
      k == Len(pieces[i].args)
  IN /\ Contains(r.sql, Shifted(pieces[i].sql, p))
     /\ Len(r.args) >= p + k
     /\ SubSeq(r.args, p + 1, p + k) = pieces[i].args

\* C1: a sub-query with placeholders $1..$k and k arguments, embedded in a doc
\* builder in any role, is rendered with p placeholders before it as
\* $(p+1)..$(p+k), and its arguments are at p+1..p+k of the argument list of
\* ToSQL; the same for a doc builder embedded in a doc builder.
C1_SubQueryWindow ==
  DocRendered =>
    LET pieces == RenderOrder(doc[res.who]) IN
    \A i \in 1..Len(pieces) :
      pieces[i].sub /\ WellFormed(pieces[i]) => SubAt(res.r, pieces, i)

\* the text of a doc builder that itself embeds a sub-query
IsNested(text) == \E i \in 1..Len(text) : text[i] = Lit(ManyText[1])

\* d1 rendered a sub-query that came from d2 with d2's own sub-query in it,
\* after at least one placeholder
C1_Witness ==
  /\ DocRendered /\ res.who = "d1"
  /\ LET pieces == RenderOrder(doc["d1"]) IN
     \E i \in 1..Len(pieces) :
       /\ pieces[i].sub /\ WellFormed(pieces[i])
       /\ IsNested(pieces[i].sql)
       /\ ArgsBefore(pieces, i) >= 1
       /\ Len(pieces[i].args) >= 1

\* every placeholder $n stands after the name of the value args[n]
Bound(sql, args) ==
  \A j \in 1..Len(sql) :
    IsPh(sql[j]) =>
      /\ j > 1 /\ sql[j].n \in 1..Len(args)
      /\ sql[j - 1] = Lit(args[sql[j].n])

\* C2: args[i-1] of ToSQL is the value bound to the placeholder $i of the
\* text, and the placeholders are numbered by their place in the statement
\* (WITH, MANY, VECTOR, ONE, SCALAR, FROM, JOIN, WHERE with the scope's,
\* UNION, HAVING, ORDER BY), not by the order of the calls.
C2_ArgsFollowPlaceholders ==
  DocRendered =>
    /\ Markers(res.r.sql) = [n \in 1..Len(res.r.args) |-> n]
    /\ Bound(res.r.sql, res.r.args)
    /\ res.r.args = ConcatArgs(RenderOrder(doc[res.who]))

\* With was called after Where and its value is the first argument
C2_Witness ==
  /\ DocRendered /\ res.who = "d1"
  /\ hist.last.call = "With" /\ hist.last.who = "d1"
  /\ Len(doc["d1"].sb.whereFragments) > 0
  /\ Len(res.r.args) >= 2
  /\ res.r.args[1] = Val("d1", "sub")
  /\ res.r.args[Len(res.r.args)] = Val("d1", "where")

\* the list an embedding call appends to
FieldOf(call) ==
  CASE call = "With"     -> "subQueriesWith"
    [] call = "Many"     -> "subQueriesMany"
    [] call = "Vector"   -> "subQueriesVector"
    [] call = "One"      -> "subQueriesOne"
    [] call = "Scalar"   -> "subQueriesScalar"
    [] call = "Union"    -> "union"
    [] call = "UnionAll" -> "union"
    [] OTHER             -> ""

\* this step is a call of builder p
StepOn(p) == calls' # calls /\ hist'.last.who = p

\* this step hands doc builder c to an embedding call of p, which stores it
HandOff(p, c) ==
  /\ StepOn(p) /\ hist'.last.arg = c
  /\ DocToSQL([doc[c] EXCEPT !.isParent = FALSE]).err = NoErr
  /\ hist'.last.call = "With" => doc[p].err = NoErr

\* in the step, p's list has one more element: the text and the arguments
\* that child c renders now
Resolved(p, c) ==
  LET f    == FieldOf(hist'.last.call)
      r    == DocToSQL([doc[c] EXCEPT !.isParent = FALSE])
      list == doc'[p][f]
  IN /\ Len(list) = Len(doc[p][f]) + 1
     /\ SubSeq(list, 1, Len(doc[p][f])) = doc[p][f]
     /\ list[Len(list)].sql = r.sql
     /\ list[Len(list)].args = r.args

Count(text, t) == Cardinality({i \in 1..Len(text) : text[i] = t})

\* SELECT row_to_json(dat__item.*) FROM ( ... ) as dat__item, once
WrappedOnce(text) ==
  /\ Count(text, Lit(WrapOpen)) = 1
  /\ Count(text, Lit(WrapClose)) = 1
  /\ text[Len(text)] = Lit(WrapClose)

\* C6: ToSQL called on a doc builder itself renders the statement wrapped
\* once in row_to_json, also when the builder was passed to an embedding
\* call of another builder before.
C6_TopLevelWrappedOnce == DocRendered => WrappedOnce(res.r.sql)

\* C8: when a sub-query passed to an embedding call of a doc builder failed to
\* resolve, ToSQL of that builder returns an error, whatever calls followed.
C8_SubQueryErrorKept ==
  res.who \in DocIds /\ hist.subFailed[res.who] => res.r.err # NoErr

\* C9: a doc builder whose SelectBuilder recorded an error in a chaining call
\* returns an error from ToSQL, never a rendered statement.
C9_InheritedErrorReturned ==
  res.who \in DocIds /\ doc[res.who].sb.err # NoErr => res.r.err # NoErr

(***************************************************************************)
(* Properties of InsertBuilder, and of every builder.                      *)
(***************************************************************************)
InsRendered == res.who = "ins" /\ ~res.r.panic /\ res.r.err = NoErr

\* N rows from Values (and Pair), every one of the same width, and no record
UniformRows(b) ==
  /\ Len(b.records) = 0 /\ Len(b.vals) >= 1
  /\ \A r \in 1..Len(b.vals) : Len(b.vals[r]) = Len(b.vals[1])

First(text, toks) ==
  LET at == {i \in 1..Len(text) : text[i] \in toks}
  IN IF at = {} THEN Len(text) + 1 ELSE CHOOSE i \in at : \A j \in at : i <= j

\* the text between VALUES and the ON CONFLICT or RETURNING clause
ValuesPart(text) ==
  LET rest == SubSeq(text, First(text, {Lit(") VALUES ")}) + 1, Len(text))
  IN SubSeq(rest, 1, First(rest, {Lit(" ON CONFLICT "), Lit(" RETURNING ")}) - 1)

\* N groups in parentheses that hold $1..$(N*W) in increasing order
Groups(text, n, w) ==
  /\ Count(ValuesPart(text), Lit("(")) = n
  /\ Count(ValuesPart(text), Lit(")")) = n
  /\ Markers(ValuesPart(text)) = [i \in 1..(n * w) |-> i]

\* the values of row 1 left to right, then of row 2, ...
RowMajor(args, vals, n, w) ==
  /\ Len(args) >= n * w
  /\ \A r \in 1..n : \A c \in 1..w : args[(r - 1) * w + c] = vals[r][c]

\* C3 as stated: N rows of width W and no record give N groups in
\* parentheses with $1..$(N*W) in increasing order, and exactly N*W
\* arguments in row-major order.
C3_ExactlyRowMajor ==
  InsRendered /\ UniformRows(ins) =>
    LET n == Len(ins.vals)
        w == Len(ins.vals[1])
    IN /\ Groups(res.r.sql, n, w)
       /\ RowMajor(res.r.args, ins.vals, n, w)
       /\ Len(res.r.args) = n * w

\* C3, amended: N rows of width W and no record give N groups in parentheses
\* with $1..$(N*W) in increasing order, and the first N*W arguments are the
\* values in row-major order; they are all the arguments when no Set value
\* of ON CONFLICT DO UPDATE follows.
C3_RowMajor ==
  InsRendered /\ UniformRows(ins) =>
    LET n == Len(ins.vals)
        w == Len(ins.vals[1])
    IN /\ Groups(res.r.sql, n, w)
       /\ RowMajor(res.r.args, ins.vals, n, w)
       /\ Len(ins.onConflictAction.setClauses) = 0 => Len(res.r.args) = n * w

\* two rows of two values
C3_Witness ==
  /\ InsRendered /\ UniformRows(ins)
  /\ Len(ins.vals) = 2 /\ Len(ins.vals[1]) = 2
  /\ res.r.args = <<"r1c1", "r1c2", "r2c1", "r2c2">>

C7_FirstErrorWins ==
  /\ hist.insFirstErr # NoErr =>
       /\ ins.err = hist.insFirstErr
       /\ res.who = "ins" => res.r.err = hist.insFirstErr
  /\ hist.selFirstErr # NoErr =>
       /\ sel.err = hist.selFirstErr
       /\ res.who = "sel" => res.r.err = hist.selFirstErr

\* the validations of ToSQL in the stated order: whether the builder fails
\* one, and the error it gives
Checks(b) ==
  <<[fails |-> b.table = "", err |-> ErrNoTable],
    [fails |-> Len(b.cols) = 0, err |-> ErrInsNoColumns],
    [fails |-> Len(b.vals) = 0 /\ Len(b.records) = 0, err |-> ErrNoValues],
    [fails |-> Len(b.records) = 0 /\ Len(b.cols) > 0 /\ b.cols[1] = "*",
     err |-> ErrStarNoRecord],
    [fails |-> Len(b.records) = 0 /\ b.isBlacklist, err |-> ErrBlacklistNoRecord]>>

\* C10: when no chaining call recorded an error, ToSQL of an InsertBuilder
\* returns the error of the first check that fails, in the order: empty table
\* name, no columns, no rows and no records, "*" without a record, Blacklist
\* without a record; the errors are distinct, and with any of them the text
\* is empty and there are no arguments.
C10_ValidationOrder ==
  /\ \A i, j \in 1..5 : i # j => Checks(ins)[i].err # Checks(ins)[j].err
  /\ res.who = "ins" /\ hist.insFirstErr = NoErr =>
       \A i \in 1..5 :
         Checks(ins)[i].fails /\ (\A j \in 1..(i - 1) : ~Checks(ins)[j].fails) =>
           res.r = Result(<<>>, <<>>, Checks(ins)[i].err)

(***************************************************************************)
(* Properties of upserts.                                                  *)
(***************************************************************************)
\* this step is a chaining call that the InsertBuilder returned from
StepIns(call) == calls'["ins"] # calls["ins"] /\ ~ins.nil /\ hist'.last.call = call

C12_UpdateHasTarget ==
  /\ ~ins.nil /\ ins.onConflictAction.action = updateAction
     => hasOneConflictTarget(ins.onConflictTarget)
  /\ InsRendered /\ ins.onConflictAction.action = updateAction
     => /\ Contains(res.r.sql, <<Lit(" ON CONFLICT ")>>)
        /\ Contains(res.r.sql, <<Lit(" DO UPDATE SET ")>>)

\* ToSQL rendered an upsert with DO UPDATE SET
UpsertRendered ==
  /\ InsRendered
  /\ hasOneConflictTarget(ins.onConflictTarget)
  /\ ins.onConflictAction.action = updateAction

RECURSIVE Flat(_)
Flat(seqs) == IF seqs = <<>> THEN <<>> ELSE Head(seqs) \o Flat(Tail(seqs))

\* the text after DO UPDATE SET, up to the RETURNING clause
SetPart(text) ==
  LET rest == SubSeq(text, First(text, {Lit(" DO UPDATE SET ")}) + 1, Len(text))
  IN SubSeq(rest, 1, First(rest, {Lit(" RETURNING ")}) - 1)

IsExcluded(c) == c.value.t = "str" /\ c.value.v = "EXCLUDED." \o c.column

\* what a Set pair adds to the arguments
SetArgs(c) ==
  IF IsExcluded(c) THEN <<>>
  ELSE IF c.value.t = "expr" THEN c.value.args
  ELSE <<c.value.v>>

\* c = ... with the cursor at $k
SetText(c, k) ==
  <<Lit(c.column), Lit(" = ")>>
    \o (IF IsExcluded(c) THEN <<Lit(c.value.v)>>
        ELSE IF c.value.t = "expr" THEN Shifted(c.value.sql, k - 1)
        ELSE <<Ph(k)>>)

\* C13: after DO UPDATE SET the Set pairs are rendered in the order of their
\* registration as c = ...: EXCLUDED.c as it is, with no placeholder and no
\* argument; an Expression with its placeholders moved onto the cursor and
\* its arguments appended; any other value as the next placeholder, the value
\* appended.  The numbers start at (number of row values) + 1 and go on
\* without a gap into the Where fragments, joined by AND after the SET list.
C13_DoUpdateSet ==
  UpsertRendered =>
    LET cl    == ins.onConflictAction.setClauses
        wh    == ins.onConflictAction.whereFragments
        rows  == Flat(ins.vals)
        parts == [i \in 1..Len(cl) |-> [args |-> SetArgs(cl[i])]]
                   \o [j \in 1..Len(wh) |-> [args |-> wh[j].args]]
        at(i) == Len(rows) + ArgsBefore(parts, i) + 1
        sets  == [i \in 1..Len(cl) |->
                    (IF i > 1 THEN <<Lit(", ")>> ELSE <<>>) \o SetText(cl[i], at(i))]
        ands  == [j \in 1..Len(wh) |->
                    <<IF j = 1 THEN Lit("(") ELSE Lit(" AND (")>>
                      \o Shifted(wh[j].sql, at(Len(cl) + j) - 1) \o <<Lit(")")>>]
    IN /\ SetPart(res.r.sql)
            = Flat(sets) \o (IF Len(wh) > 0 THEN <<Lit(" WHERE ")>> ELSE <<>>)
                \o Flat(ands)
       /\ res.r.args = rows \o ConcatArgs(parts)
       /\ Markers(SetPart(res.r.sql))
            = [n \in 1..(Len(res.r.args) - Len(rows)) |-> Len(rows) + n]

\* an Expression, then a plain value, then a Where fragment, after one row
C13_Witness ==
  /\ UpsertRendered
  /\ Len(ins.vals) = 1
  /\ Len(ins.onConflictAction.setClauses) >= 2
  /\ ins.onConflictAction.setClauses[1].value.t = "expr"
  /\ Len(ins.onConflictAction.whereFragments) = 1
  /\ Len(res.r.args) = 4

\* the text from ON CONFLICT on, up to the RETURNING clause
ConflictPart(text) ==
  LET rest == SubSeq(text, First(text, {Lit(" ON CONFLICT ")}), Len(text))
  IN SubSeq(rest, 1, First(rest, {Lit(" RETURNING ")}) - 1)

\* C14: an InsertBuilder with a conflict target (a column, a column with an
\* index predicate, or a constraint) and no successful Set renders
\* ON CONFLICT (column)[ WHERE predicate] DO NOTHING, or
\* ON CONFLICT ON CONSTRAINT name DO NOTHING, after the VALUES groups, and
\* the arguments are the row values alone.
C14_DoNothing ==
  /\ InsRendered
  /\ hasOneConflictTarget(ins.onConflictTarget)
  /\ ins.onConflictAction.action # updateAction
  => LET t == ins.onConflictTarget IN
     /\ ConflictPart(res.r.sql)
          = IF t.column # ""
              THEN <<Lit(" ON CONFLICT "), Lit("("), Lit(t.column), Lit(")")>>
                     \o (IF t.indexPredicate # ""
                           THEN <<Lit(" WHERE "), Lit(t.indexPredicate)>>
                           ELSE <<>>)
                     \o <<Lit(" DO NOTHING")>>
              ELSE <<Lit(" ON CONFLICT "), Lit("ON CONSTRAINT "), Lit(t.constraint),
                     Lit(" DO NOTHING")>>
     /\ First(res.r.sql, {Lit(") VALUES ")}) < First(res.r.sql, {Lit(" ON CONFLICT ")})
     /\ res.r.args = Flat(ins.vals)

\* a column with an index predicate, one row, no Set
C14_Witness ==
  /\ InsRendered
  /\ ins.onConflictTarget.column = "b"
  /\ ins.onConflictTarget.indexPredicate = "b > 0"
  /\ ins.onConflictTarget.constraint = ""
  /\ ins.onConflictAction.action # updateAction
  /\ Len(res.r.args) = 1

\* the values of the records for the columns written, record by record
RecordValues(b) ==
  Flat([i \in 1..Len(b.records) |-> valuesFor(b.records[i], ResolvedCols(b)).vals])

\* C15: whatever the interleaving of the Values and Record calls, ToSQL
\* writes the literal rows first, in the order of their registration, then
\* the records in the order of theirs; the placeholders are numbered $1, $2,
\* ... across all the groups and the arguments are in the same order.
C15_RowsThenRecords ==
  InsRendered =>
    LET rows == Flat(ins.vals) \o RecordValues(ins) IN
    /\ Count(ValuesPart(res.r.sql), Lit("(")) = Len(ins.vals) + Len(ins.records)
    /\ Markers(ValuesPart(res.r.sql)) = [n \in 1..Len(rows) |-> n]
    /\ Len(res.r.args) >= Len(rows)
    /\ SubSeq(res.r.args, 1, Len(rows)) = rows

\* Values was called after both records; its row comes first
C15_Witness ==
  /\ InsRendered
  /\ hist.last.call = "Values"
  /\ ins.records = <<Other, Person>>
  /\ res.r.args = ins.vals[1] \o <<"oth.b", "rec.b">>

RECURSIVE Widths(_, _)
Widths(text, n) ==
  IF text = <<>> THEN <<>>
  ELSE IF Head(text) = Lit(")") THEN <<n>> \o Widths(Tail(text), 0)
  ELSE IF IsPh(Head(text)) THEN Widths(Tail(text), n + 1)
  ELSE Widths(Tail(text), n)

\* the number of columns in the column list of the statement
ColumnsWritten(text) ==
  Cardinality({i \in (First(text, {Lit(" (")}) + 1)..(First(text, {Lit(") VALUES ")}) - 1) :
                 text[i] # Lit(",")})

\* C16: in every statement ToSQL returns without error, each VALUES group,
\* of a literal row or of a record, has as many placeholders as there are
\* columns in the column list.
C16_GroupWidth ==
  InsRendered =>
    LET w == Widths(ValuesPart(res.r.sql), 0) IN
    \A g \in 1..Len(w) : w[g] = ColumnsWritten(res.r.sql)

(***************************************************************************)
(* Properties of the WHERE clause of a SelectBuilder.                      *)
(***************************************************************************)
SelRendered == res.who = "sel" /\ ~res.r.panic /\ res.r.err = NoErr

\* every Where call of the run appended its fragment
AllWheres == Len(hist.wheres) = Len(sel.whereFragments)

\* the text after WHERE, up to the next clause
WherePart(text) ==
  LET rest == SubSeq(text, First(text, {Lit(" WHERE ")}) + 1, Len(text))
  IN SubSeq(rest, 1,
            First(rest, {Lit(" GROUP BY "), Lit(" HAVING "), Lit(" ORDER BY "),
                         Lit(" LIMIT "), Lit(" OFFSET "), Lit(" FOR")}) - 1)

\* the predicates of (p1) AND (p2) ..., without the parentheses
RECURSIVE Conds(_, _)
Conds(text, cur) ==
  IF text = <<>> THEN <<>>
  ELSE IF Head(text) \in {Lit("("), Lit(" AND (")} THEN Conds(Tail(text), <<>>)
  ELSE IF Head(text) = Lit(")") THEN <<cur>> \o Conds(Tail(text), <<>>)
  ELSE Conds(Tail(text), Append(cur, Head(text)))

IsEmptySlice(in) ==
  in.t = "eq" /\ in.val.k = "slice" /\ ~in.val.nil /\ Len(in.val.elems) = 0

IsNilSlice(in) == in.t = "eq" /\ in.val.k = "slice" /\ in.val.nil

EmptySlices == [i \in 1..Len(hist.wheres) |-> IsEmptySlice(hist.wheres[i])]

NilSlices == [i \in 1..Len(hist.wheres) |-> IsNilSlice(hist.wheres[i])]

\* the elements of seq at the places that are not dropped
RECURSIVE Keep(_, _)
Keep(seq, drops) ==
  IF seq = <<>> THEN <<>>
  ELSE (IF Head(drops) THEN <<>> ELSE <<Head(seq)>>) \o Keep(Tail(seq), Tail(drops))

\* ToSQL of the builder had the dropped Where calls not been made
Absent(drops) == SelectToSQL([sel EXCEPT !.whereFragments = Keep(@, drops)])

\* C17: a map entry of Where whose value is an empty slice is rendered as
\* (1=0) and adds no argument; the other predicates have the text, the
\* placeholder numbers and the arguments they have when the entry is absent.
C17_EmptySliceIsFalse ==
  SelRendered /\ AllWheres =>
    LET conds == Conds(WherePart(res.r.sql), <<>>) IN
    /\ Len(conds) = Len(hist.wheres)
    /\ \A i \in 1..Len(conds) :
         IsEmptySlice(hist.wheres[i]) => conds[i] = <<Lit("1=0")>>
    /\ Keep(conds, EmptySlices)
         = Conds(WherePart(Absent(EmptySlices).sql), <<>>)
    /\ res.r.args = Absent(EmptySlices).args

\* an empty slice before a predicate that binds a value
C17_Witness ==
  /\ SelRendered /\ AllWheres
  /\ \E i, j \in 1..Len(hist.wheres) :
       /\ i < j
       /\ IsEmptySlice(hist.wheres[i])
       /\ Len(sel.whereFragments[j].args) = 1
  /\ Len(res.r.args) >= 1

\* C18 as stated: a map entry of Where whose value is a nil slice is taken
\* for a slice of length 0: it is rendered as 1=0 with no argument.
C18_NilSliceIsFalse ==
  SelRendered /\ AllWheres =>
    LET conds == Conds(WherePart(res.r.sql), <<>>) IN
    /\ \A i \in 1..Len(hist.wheres) :
         IsNilSlice(hist.wheres[i]) => i <= Len(conds) /\ conds[i] = <<Lit("1=0")>>
    /\ res.r.args = Absent(NilSlices).args

\* C18, amended: a map entry of Where whose value is a nil slice is taken for
\* a nil value: it is rendered as col IS NULL with no argument; only a slice
\* that is empty and not nil is rendered as 1=0.
C18_NilSliceIsNull ==
  SelRendered /\ AllWheres =>
    LET conds == Conds(WherePart(res.r.sql), <<>>) IN
    /\ \A i \in 1..Len(hist.wheres) :
         IsNilSlice(hist.wheres[i]) =>
           /\ i <= Len(conds)
           /\ conds[i] = <<Lit(hist.wheres[i].col), Lit(" IS NULL")>>
    /\ res.r.args = Absent(NilSlices).args

\* a nil slice, then a predicate that binds a value
C18_Witness ==
  /\ SelRendered /\ AllWheres
  /\ Len(hist.wheres) = 2
  /\ IsNilSlice(hist.wheres[1])
  /\ hist.wheres[2] = EqIn("a", Scalar("a.v"))
  /\ res.r.args = <<"a.v">>

\* the text after HAVING, up to the next clause
HavingPart(text) ==
  LET rest == SubSeq(text, First(text, {Lit(" HAVING ")}) + 1, Len(text))
  IN SubSeq(rest, 1,
            First(rest, {Lit(" ORDER BY "), Lit(" LIMIT "), Lit(" OFFSET "),
                         Lit(" FOR")}) - 1)

\* (p1) AND (p2) ... AND (pn), n predicates
AndJoined(part, n) ==
  /\ Len(Conds(part, <<>>)) = n
  /\ n > 0 => part[1] = Lit("(") /\ part[Len(part)] = Lit(")")
  /\ Count(part, Lit("(")) = (IF n > 0 THEN 1 ELSE 0)
  /\ Count(part, Lit(" AND (")) = (IF n > 0 THEN n - 1 ELSE 0)

\* C19: ToSQL of a SelectBuilder renders the WHERE fragments in the order of
\* their registration, each in parentheses, joined by AND, and the HAVING
\* fragments likewise; the $1..$k of every fragment are moved onto one cursor
\* that runs through FROM, JOIN, WHERE, HAVING, ORDER BY, so that fragments
\* written with $1 get consecutive numbers, and the arguments are in the
\* same order.
C19_ClauseOrder ==
  SelRendered =>
    LET scoped == ScopeWherePiece(sel)
        pieces == Piece(sel.tableFragments, FALSE) \o Piece(sel.joinFragments, FALSE)
                    \o Piece(sel.whereFragments, FALSE) \o scoped
                    \o Piece(sel.havingFragments, FALSE) \o Piece(sel.orderBys, FALSE)
        nFrom  == Len(sel.tableFragments) + Len(sel.joinFragments)
        nWhere == Len(sel.whereFragments) + Len(scoped)
        wh     == WherePart(res.r.sql)
        hv     == HavingPart(res.r.sql)
    IN /\ AndJoined(wh, nWhere)
       /\ AndJoined(hv, Len(sel.havingFragments))
       /\ \A i \in 1..Len(sel.whereFragments) :
            Conds(wh, <<>>)[i]
              = Shifted(sel.whereFragments[i].sql, ArgsBefore(pieces, nFrom + i))
       /\ \A i \in 1..Len(sel.havingFragments) :
            Conds(hv, <<>>)[i]
              = Shifted(sel.havingFragments[i].sql,
                        ArgsBefore(pieces, nFrom + nWhere + i))
       /\ Markers(res.r.sql) = [n \in 1..Len(res.r.args) |-> n]
       /\ res.r.args = ConcatArgs(pieces)

\* FROM with an argument, two WHERE fragments and a HAVING fragment, each
\* written with $1
C19_Witness ==
  /\ SelRendered
  /\ Len(sel.tableFragments) = 1 /\ Len(sel.whereFragments) = 2
  /\ Len(sel.havingFragments) = 1
  /\ Len(res.r.args) = 4

\* C20: every chaining call on a builder, also one that finds its input
\* invalid and records an error, returns the builder it was called on, never
\* nil, so that the chain can go on to ToSQL.
C20_ReturnsSelf ==
  [][calls'["sel"] # calls["sel"] => hist'.ret = "self"]_vars

(***************************************************************************)
(* Properties of Whitelist.                                                *)
(***************************************************************************)
\* the last chaining call was Whitelist on d1: the builder before and after
LastWhitelist == hist.last.call = "Whitelist" /\ hist.last.who = "d1"

Before == hist.before[1]

After == doc["d1"]

NoOpList(columns) ==
  Len(columns) = 0 \/ \E i \in 1..Len(columns) : columns[i] = "*"

\* alias equals a listed name, or begins with the prefix of a listed prefix*
Allowed(alias, columns) ==
  \E i \in 1..Len(columns) :
    LET c == Chars(columns[i]) IN
    /\ Len(c) > 0
    /\ IF c[Len(c)] = "*"
         THEN /\ Len(c) - 1 <= Len(Chars(alias))
              /\ SubSeq(Chars(alias), 1, Len(c) - 1) = SubSeq(c, 1, Len(c) - 1)
         ELSE columns[i] = alias

\* every MANY/ONE/VECTOR/SCALAR binding is at its place as it was when keep
\* holds of its alias, and pruned when not
PrunedTo(keep(_)) ==
  \A f \in {"subQueriesMany", "subQueriesOne", "subQueriesVector", "subQueriesScalar"} :
    /\ Len(After[f]) = Len(Before[f])
    /\ \A i \in 1..Len(Before[f]) :
         After[f][i] = IF ~Before[f][i].nil /\ keep(Before[f][i].alias)
                         THEN Before[f][i] ELSE NilSub

WithUnionKept ==
  /\ After.subQueriesWith = Before.subQueriesWith
  /\ After.union = Before.union

HasPruned(b) ==
  \E f \in {"subQueriesMany", "subQueriesOne", "subQueriesVector", "subQueriesScalar"} :
    \E i \in 1..Len(b[f]) : b[f][i].nil

\* C21: Whitelist with a list that is not empty and does not hold "*" prunes
\* exactly the MANY/ONE/VECTOR/SCALAR bindings whose alias is neither a listed
\* name nor begins with the prefix of a listed prefix*; the bindings kept are
\* unchanged and in their places; Whitelist() and a list that holds "*"
\* change nothing; the WITH and UNION bindings are never pruned.
C21_WhitelistPrunes ==
  LastWhitelist =>
    /\ ~res.r.panic
    /\ WithUnionKept
    /\ IF NoOpList(hist.columns) THEN After = Before
       ELSE PrunedTo(LAMBDA a : Allowed(a, hist.columns))

\* the alias begins with f or is x
StartsWithFOrIsX(alias) ==
  \/ Len(Chars(alias)) > 0 /\ Chars(alias)[1] = "f"
  \/ alias = "x"

C26_WhitelistAgain ==
  LastWhitelist /\ HasPruned(Before) =>
    /\ ~res.r.panic
    /\ IF NoOpList(hist.columns) THEN After = Before
       ELSE PrunedTo(LAMBDA a : Allowed(a, hist.columns))

(***************************************************************************)
(* Properties of UNION.                                                    *)
(***************************************************************************)
\* the place of UNION binding i among the fragments of the statement
UnionAt(b, i) ==
  Len(RenderOrder(b)) - Len(b.sb.orderBys) - Len(b.sb.havingFragments)
    - Len(NonNil(b.union)) + i

\* UNION <sub-query> or UNION ALL <sub-query> for every binding, in order
UnionText(b) ==
  Flat([i \in 1..Len(b.union) |->
          <<Lit(" UNION "), Lit(b.union[i].alias), Lit(" ")>>
            \o Shifted(b.union[i].sql, ArgsBefore(RenderOrder(b), UnionAt(b, i)))
            \o <<Lit(" ")>>])

\* the tokens that open the clauses of the main body, and those after it
BodyOpens == {Lit(" FROM "), Lit(" WHERE ")}

TailOpens ==
  {Lit(" GROUP BY "), Lit(" HAVING "), Lit(" ORDER BY "), Lit(" LIMIT "),
   Lit(" OFFSET "), Lit(" FOR")}

IsPrefix(old, new) == Len(old) <= Len(new) /\ SubSeq(new, 1, Len(old)) = old

\* every row there was is still there, and has lost no value
RowsKept(old, new) ==
  Len(old) <= Len(new) /\ \A i \in 1..Len(old) : IsPrefix(old[i], new[i])

\* C24: the lists of a builder are append-only between construction and
\* ToSQL: a chaining call on an InsertBuilder (Columns, Whitelist, Blacklist,
\* Returning, Values, Record, Pair) only appends to a list and never replaces
\* or drops what an earlier call added; in particular Columns appends columns.
C24_AppendOnly ==
  [][calls'["ins"] # calls["ins"] /\ ~ins.nil /\ ~ins'.nil =>
       /\ IsPrefix(ins.cols, ins'.cols)
       /\ IsPrefix(ins.returnings, ins'.returnings)
       /\ IsPrefix(ins.records, ins'.records)
       /\ RowsKept(ins.vals, ins'.vals)]_vars

\* C27: the column mode of an InsertBuilder is that of the most recent of
\* Columns, Whitelist and Blacklist: when Columns was the last chaining call
\* the builder is in whitelist mode, and ToSQL of rows from Values with no
\* record succeeds.
C27_LastModeWins ==
  hist.last.who = "ins" /\ hist.last.call = "Columns" /\ ~ins.nil =>
    /\ ~ins.isBlacklist
    /\ res.who = "ins" /\ ~res.r.panic /\ ins.err = NoErr
         /\ Len(ins.vals) > 0 /\ Len(ins.records) = 0
         /\ Len(ins.cols) > 0 /\ ins.cols[1] # "*"
       => res.r.err = NoErr

\* C28: when OnConflictColumn or OnConflictConstraint was called with a name,
\* ToSQL renders an ON CONFLICT clause or returns an error; after both calls
\* it does not return a statement without ON CONFLICT and without an error.
C28_ConflictRenderedOrError ==
  /\ res.who = "ins" /\ ~res.r.panic /\ ~ins.nil
  /\ ins.onConflictTarget.column # "" \/ ins.onConflictTarget.constraint # ""
  => \/ res.r.err # NoErr
     \/ Count(res.r.sql, Lit(" ON CONFLICT ")) > 0

(***************************************************************************)
(* Properties of Scope.                                                    *)
(***************************************************************************)
\* C29: for a SelectBuilder with a Scope(sql, args...), every argument of
\* the scope is in the argument list ToSQL returns, and every placeholder of
\* the scope text is renumbered onto the running cursor of the statement (the
\* placeholders of the statement are $1..$n from left to right), whether or
\* not the scope text has a WHERE keyword.
C29_ScopeArgsBound ==
  SelRendered /\ sel.scope.set =>
    /\ \A i \in 1..Len(sel.scope.args) :
         \E j \in 1..Len(res.r.args) : res.r.args[j] = sel.scope.args[i]
    /\ Markers(res.r.sql) = [k \in 1..Len(res.r.args) |-> k]

(***************************************************************************)
(* Properties of InnerSQL.                                                 *)
(***************************************************************************)
\* the arguments of the fragments are among those of the statement
ArgsBound(frags, args) ==
  \A i \in 1..Len(frags) : \A k \in 1..Len(frags[i].args) :
    \E j \in 1..Len(args) : args[j] = frags[i].args[k]

\* C30: every clause registered on a SelectDocBuilder is rendered by ToSQL
\* whether or not InnerSQL was called: with InnerSQL set, the UNION and
\* UNION ALL bindings, FROM, WHERE and ORDER BY and their arguments are still
\* in the output.
C30_ClausesKept ==
  LET b == doc["d1"] IN
  DocRendered /\ res.who = "d1" /\ b.innerSQL.set =>
    /\ \A i \in 1..Len(b.union) :
         Contains(res.r.sql, <<Lit(" UNION "), Lit(b.union[i].alias), Lit(" ")>>)
    /\ ArgsBound(b.union, res.r.args)
    /\ Len(b.sb.tableFragments) > 0 => Count(res.r.sql, Lit(" FROM ")) > 0
    /\ ArgsBound(b.sb.tableFragments, res.r.args)
    /\ Len(b.sb.whereFragments) > 0 => Count(res.r.sql, Lit(" WHERE ")) > 0
    /\ ArgsBound(b.sb.whereFragments, res.r.args)
    /\ Len(b.sb.orderBys) > 0 => Count(res.r.sql, Lit(" ORDER BY ")) > 0
    /\ ArgsBound(b.sb.orderBys, res.r.args)

(***************************************************************************)
(* Properties of the virtual table of With.                                *)
(***************************************************************************)
\* the slice of the last With call, and what With stored for it
LastTable ==
  /\ hist.last.who = "d1" /\ hist.last.call = "With" /\ hist.last.arg = "slice"
  /\ doc["d1"].err = NoErr

Table == hist.contents[1]

Stored == doc["d1"].subQueriesWith[Len(doc["d1"].subQueriesWith)]

\* the places of the fields with a db tag, and of the elements that are not nil
Tagged(c) ==
  SelectSeq([k \in 1..Len(c.fields) |-> k], LAMBDA k : c.fields[k].db # "")

Present(c) ==
  SelectSeq([j \in 1..Len(c.elems) |-> j], LAMBDA j : ~c.elems[j].nil)

Rank(c, j) == Cardinality({i \in 1..j : ~c.elems[i].nil})

\* n entries: NULL for a nil element, $(base + r) for the r-th that is not nil
Entries(c, base) ==
  Flat([j \in 1..Len(c.elems) |->
          (IF j # 1 THEN <<Lit(",")>> ELSE <<>>)
            \o <<IF c.elems[j].nil THEN Lit("NULL") ELSE Ph(base + Rank(c, j))>>])

\* F expressions UNNEST(ARRAY[...]::type[]) AS "name", or the one named data
TableText(c) ==
  IF c.struct
    THEN <<Lit("SELECT ")>>
           \o Flat([q \in 1..Len(Tagged(c)) |->
                (IF q # 1 THEN <<Lit(",")>> ELSE <<>>)
                  \o <<Lit(" UNNEST(ARRAY[")>>
                  \o Entries(c, (q - 1) * Len(Present(c)))
                  \o <<Lit("]::"), Lit(c.fields[Tagged(c)[q]].type \o "[]"),
                       Lit(") AS "), Lit("\""), Lit(c.fields[Tagged(c)[q]].db),
                       Lit("\"")>>])
    ELSE <<Lit("SELECT UNNEST(ARRAY[")>> \o Entries(c, 0)
           \o <<Lit("]::"), Lit(c.type \o "[]"), Lit(") AS data ")>>

\* the values of the elements that are not nil, column by column
TableArgs(c) ==
  IF c.struct
    THEN Flat([q \in 1..Len(Tagged(c)) |->
                 [r \in 1..Len(Present(c)) |-> c.elems[Present(c)[r]].vals[Tagged(c)[q]]]])
    ELSE [r \in 1..Len(Present(c)) |-> c.elems[Present(c)[r]].vals[1]]

\* C25: a slice passed to With becomes a virtual table: for n elements of
\* which m are nil and F fields with a db tag, F expressions
\* UNNEST(ARRAY[...]) AS name of n entries each, a nil element the literal
\* NULL with no placeholder and no argument, for every element type, pointers
\* to scalars included; the placeholders are numbered column by column and
\* the F*(n-m) arguments follow that order; an empty slice renders ARRAY[]
\* with no argument; a slice that is not of structs has the one column data.
C25_VirtualTable ==
  LastTable =>
    /\ Stored.sql = TableText(Table)
    /\ Stored.args = TableArgs(Table)

====
